---- MODULE Spec2Model ----
(***************************************************************************)
(* Model of the web export step: src/src/export.py (class WebExporter)     *)
(* driven by src/06_export_for_web.py (run_process).                       *)
(*                                                                         *)
(* Floats are modelled as exact rationals <<numerator, denominator>> in    *)
(* lowest terms; <<0, 0>> is NaN.  Strings built by f-strings are modelled *)
(* as sequences of character codes, so that string order and string        *)
(* equality are those of the program.                                      *)
(*                                                                         *)
(* The grid sizes and the per-cell caps are scaled down (see the bounds):  *)
(* the leaf grid is 4*CoarseSize cells wide instead of 256, and the caps   *)
(* 100 / 50 / 10 / 10 / 50 MB are small numbers that a handful of points   *)
(* can exceed.                                                             *)
(***************************************************************************)
EXTENDS Integers, Sequences, FiniteSets, TLC

(***************************************************************************)
(* Bounds of the model.                                                    *)
(***************************************************************************)
MaxPoints == 4          \* rows of the input parquet file
MaxX == 4               \* raw x is drawn from 0..MaxX
MaxY == 1               \* raw y is drawn from 0..MaxY
MaxRuns == 2            \* runs of the step over the same output directory
MaxRerunRows == 3       \* a second run is explored for inputs of at most this many rows
CoarseSize == 1         \* GRID_SIZES = [256,128,64], scaled to [4c,2c,c]
EXAMPLES_PER_CELL == 2  \* self.EXAMPLES_PER_CELL = 100, scaled
MINI_GRID_SIZE == 2     \* self.MINI_GRID_SIZE = 10, scaled
FEW_POINTS == 2         \* the literal 50 of _find_densest_point, scaled
TOP_CANDIDATES == 2     \* the literal 10 of sorted_points[:10], scaled
MAX_JSON_MB == 3        \* self.MAX_JSON_MB = 50, in units of JsonSize
MaxDense == 4           \* points of the crowded cell of a dense input
SubSteps == 2           \* raw coordinate steps across a sub-cell of the crowded cell

GRID_SIZES == <<4 * CoarseSize, 2 * CoarseSize, CoarseSize>>
LEAF == GRID_SIZES[1]

VARIABLES
    input,              \* the parquet file: [columns, rows]
    images,             \* output_dir/images/256: filename -> url it was encoded from
    run,                \* number of the current run over the output directory
    pc,                 \* position of run_process / generate_grids
    points,             \* result of load_and_normalize
    grid_256_buckets,   \* ordered dict: sequence of [key, pts]
    tasks,              \* one _process_cell_256 coroutine per bucket
    grid_256_data,
    grid_128_data,
    grid_64_data,
    written,            \* JSON files written in this run, in order
    exit_status         \* "running", or the exit status "0" or "1"

vars == <<input, images, run, pc, points, grid_256_buckets, tasks,
          grid_256_data, grid_128_data, grid_64_data, written, exit_status>>

(***************************************************************************)
(* Floats as rationals.                                                    *)
(***************************************************************************)
RECURSIVE GCD(_, _)
GCD(a, b) == IF b = 0 THEN a ELSE GCD(b, a % b)

Abs(n) == IF n < 0 THEN 0 - n ELSE n

LCM(a, b) == (a \div GCD(a, b)) * b

NaN == <<0, 0>>

IsNaN(a) == a[2] = 0

Frac(n, d) ==
    IF d = 0 THEN NaN
    ELSE LET s == IF d < 0 THEN 0 - 1 ELSE 1
             g == GCD(Abs(n), Abs(d))
         IN  <<(s * n) \div g, (s * d) \div g>>

Num(n) == <<n, 1>>

FAdd(a, b) ==
    IF IsNaN(a) \/ IsNaN(b) THEN NaN
    ELSE LET l == LCM(a[2], b[2])
         IN  Frac(a[1] * (l \div a[2]) + b[1] * (l \div b[2]), l)

FSub(a, b) == FAdd(a, <<0 - b[1], b[2]>>)

FMul(a, b) ==
    IF IsNaN(a) \/ IsNaN(b) THEN NaN
    ELSE LET p == Frac(a[1], b[2])
             q == Frac(b[1], a[2])
         IN  <<p[1] * q[1], p[2] * q[2]>>

\* numpy / float division; 0/0 is NaN (the only zero divisor the program meets)
FDiv(a, b) ==
    IF IsNaN(a) \/ IsNaN(b) \/ b[1] = 0 THEN NaN
    ELSE FMul(a, Frac(b[2], b[1]))

FLess(a, b) ==
    /\ ~IsNaN(a)
    /\ ~IsNaN(b)
    /\ LET l == LCM(a[2], b[2])
       IN  a[1] * (l \div a[2]) < b[1] * (l \div b[2])

\* int(f) for f >= 0
FInt(a) == a[1] \div a[2]

FSquare(a) == FMul(a, a)

Min2(a, b) == IF a < b THEN a ELSE b

Ceil(a, b) == (a + b - 1) \div b

(***************************************************************************)
(* Sequences.                                                              *)
(***************************************************************************)
Range(s) == {s[i] : i \in 1..Len(s)}

Take(s, n) == SubSeq(s, 1, Min2(n, Len(s)))

\* faulty variant, for sensitivity of the properties: the end of the slice is taken inclusive
SliceInclusive(s, start, end) == SubSeq(s, start + 1, Min2(end + 1, Len(s)))

\* s[start:end] of Python, 0-based, end exclusive, clamped
Slice(s, start, end) == SubSeq(s, start + 1, Min2(end, Len(s)))

RECURSIVE Concat(_)
Concat(ss) == IF ss = <<>> THEN <<>> ELSE Head(ss) \o Concat(Tail(ss))

RECURSIVE SumSeq(_)
SumSeq(s) == IF s = <<>> THEN 0 ELSE Head(s) + SumSeq(Tail(s))

\* faulty variant, for sensitivity of the properties: among equal minima the last one is taken
LastMinIndex(keys) ==
    CHOOSE i \in 1..Len(keys) :
        /\ \A j \in 1..Len(keys) : ~FLess(keys[j], keys[i])
        /\ \A j \in (i + 1)..Len(keys) : FLess(keys[i], keys[j])

\* index of the first element whose key is minimal: Python's min(s, key=...)
FirstMinIndex(keys) ==
    CHOOSE i \in 1..Len(keys) :
        /\ \A j \in 1..Len(keys) : ~FLess(keys[j], keys[i])
        /\ \A j \in 1..(i - 1) : FLess(keys[i], keys[j])

\* faulty variant, for sensitivity of the properties: among equal maxima the last one is taken
LastMaxIndex(keys) ==
    CHOOSE i \in 1..Len(keys) :
        /\ \A j \in 1..Len(keys) : keys[j] <= keys[i]
        /\ \A j \in (i + 1)..Len(keys) : keys[j] < keys[i]

\* index of the first element whose key is maximal: Python's max(s, key=...)
FirstMaxIndex(keys) ==
    CHOOSE i \in 1..Len(keys) :
        /\ \A j \in 1..Len(keys) : keys[j] <= keys[i]
        /\ \A j \in 1..(i - 1) : keys[j] < keys[i]

\* Python's sorted(s, key=...): stable, ascending; keys[i] is the key of s[i]
SortedByKey(s, keys) ==
    LET before(i, j) == FLess(keys[i], keys[j]) \/ (~FLess(keys[j], keys[i]) /\ i < j)
        rank(i) == 1 + Cardinality({j \in 1..Len(s) : before(j, i)})
    IN  [k \in 1..Len(s) |-> s[CHOOSE i \in 1..Len(s) : rank(i) = k]]

(***************************************************************************)
(* Strings produced by f-strings, as sequences of character codes.         *)
(***************************************************************************)
RECURSIVE Digits(_)
Digits(n) == IF n < 10 THEN <<48 + n>> ELSE Digits(n \div 10) \o <<48 + (n % 10)>>

\* f"{cx},{cy}"
CellKey(cx, cy) == Digits(cx) \o <<44>> \o Digits(cy)

\* faulty variant, for sensitivity of the properties: the file is named after the column alone
ImageFilenameOfColumn(cell_x, cell_y) ==
    Digits(cell_x) \o <<46, 119, 101, 98, 112>>

\* f"{cell_x}_{cell_y}.webp"
ImageFilename(cell_x, cell_y) ==
    Digits(cell_x) \o <<95>> \o Digits(cell_y) \o <<46, 119, 101, 98, 112>>

\* f"images/256/{image_filename}"
ImagePath(image_filename) == <<"images/256/", image_filename>>

\* Python's str < str
RECURSIVE StrLess(_, _)
StrLess(a, b) ==
    IF b = <<>> THEN FALSE
    ELSE IF a = <<>> THEN TRUE
    ELSE IF Head(a) # Head(b) THEN Head(a) < Head(b)
    ELSE StrLess(Tail(a), Tail(b))

(***************************************************************************)
(* The input file.  Row i carries its own url and caption.  The rows are   *)
(* listed by non-decreasing raw y: rows that differ in y never share a     *)
(* leaf cell, so no order the program's tie-breaks depend on is fixed.     *)
(***************************************************************************)
Url(i) == <<"url", i>>

Caption(i) == <<"caption", i>>

ALL_COLUMNS == {"x", "y", "url", "caption"}

ColumnSets == {ALL_COLUMNS, ALL_COLUMNS \ {"caption"}, ALL_COLUMNS \ {"url"}}

RowsOfLength(n) ==
    {[i \in 1..n |-> [x |-> c[i][1], y |-> c[i][2], url |-> Url(i), caption |-> Caption(i)]] :
        c \in {d \in [1..n -> (0..MaxX) \X (0..MaxY)] :
                    \A i \in 1..(n - 1) : d[i][2] <= d[i + 1][2]}}

Inputs ==
    {[columns |-> ALL_COLUMNS, rows |-> r] : r \in UNION {RowsOfLength(n) : n \in 0..MaxPoints}}
    \cup {[columns |-> cs, rows |-> r] : cs \in ColumnSets \ {ALL_COLUMNS}, r \in RowsOfLength(1)}

(***************************************************************************)
(* load_and_normalize                                                      *)
(***************************************************************************)
\* Series.min() / Series.max(): NaN for an empty column
SeriesMin(vals) == IF vals = {} THEN NaN ELSE Num(CHOOSE v \in vals : \A w \in vals : v <= w)

SeriesMax(vals) == IF vals = {} THEN NaN ELSE Num(CHOOSE v \in vals : \A w \in vals : v >= w)

\* the result is [raised, points]: raised when a column is missing
\* (ValueError on x, y, url; KeyError on caption)
load_and_normalize(df) ==
    LET required == {"x", "y", "url"}
        x_min == SeriesMin({df.rows[i].x : i \in 1..Len(df.rows)})
        x_max == SeriesMax({df.rows[i].x : i \in 1..Len(df.rows)})
        y_min == SeriesMin({df.rows[i].y : i \in 1..Len(df.rows)})
        y_max == SeriesMax({df.rows[i].y : i \in 1..Len(df.rows)})
        x_norm(r) == FDiv(FSub(Num(r.x), x_min), FSub(x_max, x_min))
        y_norm(r) == FDiv(FSub(Num(r.y), y_min), FSub(y_max, y_min))
    IN  IF ~(required \subseteq df.columns) \/ "caption" \notin df.columns
        THEN [raised |-> TRUE, points |-> <<>>]
        ELSE [raised |-> FALSE,
              points |-> [i \in 1..Len(df.rows) |->
                            [url |-> df.rows[i].url, caption |-> df.rows[i].caption,
                             x |-> x_norm(df.rows[i]), y |-> y_norm(df.rows[i])]]]

(***************************************************************************)
(* generate_grids: bucketing of the points into the leaf grid              *)
(***************************************************************************)
\* faulty variant, for sensitivity of the properties: the index is not clamped
BucketIndexUnclamped(v) == FInt(FMul(v, Num(LEAF)))

\* min(int(v * 256), 255)
BucketIndex(v) == Min2(FInt(FMul(v, Num(LEAF))), LEAF - 1)

\* int(NaN) raises ValueError
BucketRaises(ps) == \E i \in 1..Len(ps) : IsNaN(ps[i].x) \/ IsNaN(ps[i].y)

\* faulty variant, for sensitivity of the properties: the point that opens a bucket is not appended
RECURSIVE GroupIntoElse(_, _, _)
GroupIntoElse(ps, keys, dict) ==
    IF ps = <<>> THEN dict
    ELSE LET hit == {i \in 1..Len(dict) : dict[i].key = Head(keys)}
         IN  IF hit = {}
             THEN GroupIntoElse(Tail(ps), Tail(keys),
                                Append(dict, [key |-> Head(keys), pts |-> <<>>]))
             ELSE GroupIntoElse(Tail(ps), Tail(keys),
                                [dict EXCEPT ![CHOOSE i \in hit : TRUE].pts = Append(@, Head(ps))])

\* an ordered dict of lists, as a sequence of [key, pts] in insertion order
RECURSIVE GroupInto(_, _, _)
GroupInto(ps, keys, dict) ==
    IF ps = <<>> THEN dict
    ELSE LET hit == {i \in 1..Len(dict) : dict[i].key = Head(keys)}
         IN  IF hit = {}
             THEN GroupInto(Tail(ps), Tail(keys),
                            Append(dict, [key |-> Head(keys), pts |-> <<Head(ps)>>]))
             ELSE GroupInto(Tail(ps), Tail(keys),
                            [dict EXCEPT ![CHOOSE i \in hit : TRUE].pts = Append(@, Head(ps))])

BucketPoints(ps) ==
    GroupInto(ps, [i \in 1..Len(ps) |-> <<BucketIndex(ps[i].x), BucketIndex(ps[i].y)>>], <<>>)

(***************************************************************************)
(* _find_densest_point                                                     *)
(***************************************************************************)
\* (p['x'] - cx)**2 + (p['y'] - cy)**2
Dist2(p, cx, cy) == FAdd(FSquare(FSub(p.x, cx)), FSquare(FSub(p.y, cy)))

ClosestTo(ps, cx, cy) == ps[FirstMinIndex([i \in 1..Len(ps) |-> Dist2(ps[i], cx, cy)])]

MiniIndex(v, lo, width) == Min2(FInt(FDiv(FSub(v, lo), width)), MINI_GRID_SIZE - 1)

\* faulty variant, for sensitivity of the properties: the densest sub-cell is searched
\* for the point closest to the centre of the whole cell
_find_densest_point_cell_center(cell_points, bounds) ==
    LET x_min == bounds[1]
        x_max == bounds[2]
        y_min == bounds[3]
        y_max == bounds[4]
        center_x == FDiv(FAdd(x_min, x_max), Num(2))
        center_y == FDiv(FAdd(y_min, y_max), Num(2))
        mini_width == FDiv(FSub(x_max, x_min), Num(MINI_GRID_SIZE))
        mini_height == FDiv(FSub(y_max, y_min), Num(MINI_GRID_SIZE))
        mini_cells == GroupInto(cell_points,
                                [i \in 1..Len(cell_points) |->
                                    <<MiniIndex(cell_points[i].x, x_min, mini_width),
                                      MiniIndex(cell_points[i].y, y_min, mini_height)>>],
                                <<>>)
        densest == mini_cells[FirstMaxIndex([i \in 1..Len(mini_cells) |-> Len(mini_cells[i].pts)])]
    IN  IF Len(cell_points) <= FEW_POINTS
        THEN ClosestTo(cell_points, center_x, center_y)
        ELSE ClosestTo(densest.pts, center_x, center_y)

_find_densest_point(cell_points, bounds) ==
    LET x_min == bounds[1]
        x_max == bounds[2]
        y_min == bounds[3]
        y_max == bounds[4]
        center_x == FDiv(FAdd(x_min, x_max), Num(2))
        center_y == FDiv(FAdd(y_min, y_max), Num(2))
        mini_width == FDiv(FSub(x_max, x_min), Num(MINI_GRID_SIZE))
        mini_height == FDiv(FSub(y_max, y_min), Num(MINI_GRID_SIZE))
        mini_cells == GroupInto(cell_points,
                                [i \in 1..Len(cell_points) |->
                                    <<MiniIndex(cell_points[i].x, x_min, mini_width),
                                      MiniIndex(cell_points[i].y, y_min, mini_height)>>],
                                <<>>)
        densest == mini_cells[FirstMaxIndex([i \in 1..Len(mini_cells) |-> Len(mini_cells[i].pts)])]
        mini_center_x == FAdd(x_min, FMul(FAdd(Num(densest.key[1]), Frac(1, 2)), mini_width))
        mini_center_y == FAdd(y_min, FMul(FAdd(Num(densest.key[2]), Frac(1, 2)), mini_height))
    IN  IF Len(cell_points) <= FEW_POINTS
        THEN ClosestTo(cell_points, center_x, center_y)
        ELSE ClosestTo(densest.pts, mini_center_x, mini_center_y)

(***************************************************************************)
(* _download_image and _process_cell_256                                   *)
(***************************************************************************)
CellBounds(cell_x, cell_y) ==
    LET cell_width == FDiv(Num(1), Num(LEAF))
    IN  <<FMul(Num(cell_x), cell_width), FMul(Num(cell_x + 1), cell_width),
          FMul(Num(cell_y), cell_width), FMul(Num(cell_y + 1), cell_width)>>

\* faulty variant, for sensitivity of the properties: the points are left in input order
SortedPointsUnsorted(cell_points, cell_x, cell_y) == cell_points

\* sorted(cell_points, key = squared distance to best_point)
SortedPoints(cell_points, cell_x, cell_y) ==
    LET best_point == _find_densest_point(cell_points, CellBounds(cell_x, cell_y))
    IN  SortedByKey(cell_points,
                    [i \in 1..Len(cell_points) |-> Dist2(cell_points[i], best_point.x, best_point.y)])

\* faulty variant, for sensitivity of the properties: every point of the cell is a candidate
CandidatesUncapped(sorted_points) == sorted_points

\* sorted_points[:10]
Candidates(sorted_points) == Take(sorted_points, TOP_CANDIDATES)

\* random.sample(s, k): k elements at distinct positions, in any order
RandomSample(s, k) ==
    {[i \in 1..k |-> s[f[i]]] :
        f \in {g \in [1..k -> 1..Len(s)] : \A a, b \in 1..k : a # b => g[a] # g[b]}}

ExamplesChoices(sorted_points) ==
    IF Len(sorted_points) <= EXAMPLES_PER_CELL
    THEN {sorted_points}
    ELSE RandomSample(sorted_points, EXAMPLES_PER_CELL)

ExamplesClean(examples) ==
    [i \in 1..Len(examples) |-> [url |-> examples[i].url, caption |-> examples[i].caption]]

\* faulty variant, for sensitivity of the properties: only the candidates are counted
CellRecordOfCandidates(t, final_point, examples) ==
    [count |-> Len(Candidates(t.sorted_points)),
     img |-> ImagePath(t.image_filename),
     url |-> final_point.url,
     caption |-> final_point.caption,
     examples |-> ExamplesClean(examples)]

\* faulty variant, for sensitivity of the properties: the examples are ordered by their
\* distance to the point whose image was acquired
CellRecordAroundFinal(t, final_point, examples) ==
    [count |-> Len(t.cell_points),
     img |-> ImagePath(t.image_filename),
     url |-> final_point.url,
     caption |-> final_point.caption,
     examples |-> ExamplesClean(
                     SortedByKey(examples,
                                 [i \in 1..Len(examples) |->
                                     Dist2(examples[i], final_point.x, final_point.y)]))]

CellRecord(t, final_point, examples) ==
    [count |-> Len(t.cell_points),
     img |-> ImagePath(t.image_filename),
     url |-> final_point.url,
     caption |-> final_point.caption,
     examples |-> ExamplesClean(examples)]

\* what the outcome of a session.get and of the decoding that follows can be
\* "exception" stands for a network error, a timeout or a decoding error, which the
\* except clause folds into one
FetchOutcomes == {"ok", "status_not_200", "exception"}

\* faulty variant, for sensitivity of the properties: the existence of the file is not looked at
AlreadyThereIgnored(imgs, output_path) == FALSE

\* the first lines of _download_image: TRUE when it returns True without a fetch
AlreadyThere(imgs, output_path) == output_path \in DOMAIN imgs

\* the task once an attempt on candidate k has succeeded
Succeeded(t, k) ==
    {[t EXCEPT !.state = "done", !.cand = k,
               !.result = <<CellRecord(t, t.sorted_points[k], ex)>>] :
        ex \in ExamplesChoices(t.sorted_points)}

\* iteration k of "for point in sorted_points[:10]", up to its first suspension:
\* the set of states the task can be in then
TryCandidate(t, imgs, k) ==
    IF k > Len(Candidates(t.sorted_points))
    THEN {[t EXCEPT !.state = "done", !.result = <<>>]}
    ELSE IF AlreadyThere(imgs, t.image_filename)
    THEN Succeeded(t, k)
    ELSE {[t EXCEPT !.state = "fetching", !.cand = k,
                    !.gets = Append(@, t.sorted_points[k].url)]}

\* the coroutine object generate_grids creates for a bucket
NewTask(bucket) ==
    [cell_x |-> bucket.key[1], cell_y |-> bucket.key[2],
     cell_points |-> bucket.pts,
     sorted_points |-> <<>>,
     image_filename |-> ImageFilename(bucket.key[1], bucket.key[2]),
     state |-> "created", cand |-> 0, gets |-> <<>>, result |-> <<>>]

(***************************************************************************)
(* _aggregate_grid                                                         *)
(***************************************************************************)
\* faulty variant, for sensitivity of the properties: the children are looked up at cx + dx, cy + dy
ChildKeysUnscaled(cx, cy) ==
    <<CellKey(cx, cy), CellKey(cx, cy + 1),
      CellKey(cx + 1, cy), CellKey(cx + 1, cy + 1)>>

\* for dx in range(2): for dy in range(2): f"{cx * 2 + dx},{cy * 2 + dy}"
ChildKeys(cx, cy) ==
    <<CellKey(cx * 2, cy * 2), CellKey(cx * 2, cy * 2 + 1),
      CellKey(cx * 2 + 1, cy * 2), CellKey(cx * 2 + 1, cy * 2 + 1)>>

Children(lower_grid, cx, cy) ==
    LET present == SelectSeq(ChildKeys(cx, cy), LAMBDA k : k \in DOMAIN lower_grid)
    IN  [i \in 1..Len(present) |-> lower_grid[present[i]]]

\* max(children, key=lambda c: c['count'])
BestChild(children) ==
    children[FirstMaxIndex([i \in 1..Len(children) |-> children[i].count])]

\* faulty variant, for sensitivity of the properties: the total is taken from the best child alone
TotalCountOfBest(children) == BestChild(children).count

\* sum(c['count'] for c in children)
TotalCount(children) == SumSeq([i \in 1..Len(children) |-> children[i].count])

\* faulty variant, for sensitivity of the properties: the concatenation is not truncated to the cap
MergeExamplesUncut(children) ==
    Concat([i \in 1..Len(children) |->
              Take(children[i].examples, Ceil(EXAMPLES_PER_CELL, Len(children)))])

\* faulty variant, for sensitivity of the properties: the share of a child is rounded down
MergeExamplesFloor(children) ==
    LET limit == EXAMPLES_PER_CELL
        take_n == limit \div Len(children)
        all_examples == Concat([i \in 1..Len(children) |-> Take(children[i].examples, take_n)])
    IN  Take(all_examples, limit)

MergeExamples(children) ==
    LET limit == EXAMPLES_PER_CELL
        take_n == Ceil(limit, Len(children))
        all_examples == Concat([i \in 1..Len(children) |-> Take(children[i].examples, take_n)])
    IN  Take(all_examples, limit)

\* faulty variant, for sensitivity of the properties: the image is taken from the first present child
UpperCellFirstImg(children) ==
    [count |-> TotalCount(children),
     img |-> children[1].img,
     url |-> BestChild(children).url,
     caption |-> BestChild(children).caption,
     examples |-> MergeExamples(children)]

\* faulty variant, for sensitivity of the properties: the caption is taken from the first present child
UpperCellFirstCaption(children) ==
    [count |-> TotalCount(children),
     img |-> BestChild(children).img,
     url |-> BestChild(children).url,
     caption |-> children[1].caption,
     examples |-> MergeExamples(children)]

UpperCell(children) ==
    [count |-> TotalCount(children),
     img |-> BestChild(children).img,
     url |-> BestChild(children).url,
     caption |-> BestChild(children).caption,
     examples |-> MergeExamples(children)]

\* faulty variant, for sensitivity of the properties: a coarse cell with a single child is skipped
_aggregate_grid_lonely(lower_grid, target_size) ==
    LET cells == {c \in (0..(target_size - 1)) \X (0..(target_size - 1)) :
                    Len(Children(lower_grid, c[1], c[2])) > 1}
    IN  [k \in {CellKey(c[1], c[2]) : c \in cells} |->
            LET c == CHOOSE d \in cells : CellKey(d[1], d[2]) = k
            IN  UpperCell(Children(lower_grid, c[1], c[2]))]

_aggregate_grid(lower_grid, target_size) ==
    LET cells == {c \in (0..(target_size - 1)) \X (0..(target_size - 1)) :
                    Children(lower_grid, c[1], c[2]) # <<>>}
    IN  [k \in {CellKey(c[1], c[2]) : c \in cells} |->
            LET c == CHOOSE d \in cells : CellKey(d[1], d[2]) = k
            IN  UpperCell(Children(lower_grid, c[1], c[2]))]

(***************************************************************************)
(* save_json_split                                                         *)
(***************************************************************************)
\* sorted(data.items()): the keys in ascending string order
SortedKeys(data) ==
    [n \in 1..Cardinality(DOMAIN data) |->
        CHOOSE k \in DOMAIN data :
            Cardinality({j \in DOMAIN data : StrLess(j, k)}) = n - 1]

\* len(json_str.encode('utf-8')), in units: one per record and one per example
JsonSize(data) ==
    LET keys == SortedKeys(data)
    IN  SumSeq([n \in 1..Len(keys) |-> 1 + Len(data[keys[n]].examples)])

\* dict(sorted_items[start:end])
PartData(data, keys) == [k \in Range(keys) |-> data[k]]

\* the files written, in order: [name |-> [base, part], order, data]; part 0
\* is f"{filename_base}.json", part n is f"{filename_base}_part{n}.json";
\* order is the order of the keys in the file (a dict keeps insertion order)
\* faulty variant, for sensitivity of the properties: the chunk size is rounded down
save_json_split_floor(data, filename_base) ==
    LET sorted_items == SortedKeys(data)
        size_mb == JsonSize(data)
        parts == Ceil(size_mb, MAX_JSON_MB)
        chunk_size == Len(sorted_items) \div parts
    IN  IF size_mb <= MAX_JSON_MB
        THEN <<[name |-> [base |-> filename_base, part |-> 0],
                order |-> sorted_items,
                data |-> PartData(data, sorted_items)]>>
        ELSE [n \in 1..parts |->
                LET part_keys == Slice(sorted_items, (n - 1) * chunk_size,
                                       (n - 1) * chunk_size + chunk_size)
                IN  [name |-> [base |-> filename_base, part |-> n],
                     order |-> part_keys,
                     data |-> PartData(data, part_keys)]]

\* faulty variant, for sensitivity of the properties: a slice ends one item early
save_json_split_short(data, filename_base) ==
    LET sorted_items == SortedKeys(data)
        size_mb == JsonSize(data)
        parts == Ceil(size_mb, MAX_JSON_MB)
        chunk_size == Ceil(Len(sorted_items), parts)
    IN  IF size_mb <= MAX_JSON_MB
        THEN <<[name |-> [base |-> filename_base, part |-> 0],
                order |-> sorted_items,
                data |-> PartData(data, sorted_items)]>>
        ELSE [n \in 1..parts |->
                LET part_keys == Slice(sorted_items, (n - 1) * chunk_size,
                                       (n - 1) * chunk_size + chunk_size - 1)
                IN  [name |-> [base |-> filename_base, part |-> n],
                     order |-> part_keys,
                     data |-> PartData(data, part_keys)]]

save_json_split(data, filename_base) ==
    LET sorted_items == SortedKeys(data)
        size_mb == JsonSize(data)
        parts == Ceil(size_mb, MAX_JSON_MB)
        chunk_size == Ceil(Len(sorted_items), parts)
    IN  IF size_mb <= MAX_JSON_MB
        THEN <<[name |-> [base |-> filename_base, part |-> 0],
                order |-> sorted_items,
                data |-> PartData(data, sorted_items)]>>
        ELSE [n \in 1..parts |->
                LET part_keys == Slice(sorted_items, (n - 1) * chunk_size,
                                       (n - 1) * chunk_size + chunk_size)
                IN  [name |-> [base |-> filename_base, part |-> n],
                     order |-> part_keys,
                     data |-> PartData(data, part_keys)]]

(***************************************************************************)
(* run_process / generate_grids as a state machine                         *)
(***************************************************************************)
EmptyMap == [k \in {} |-> {}]

Fresh ==
    /\ pc = "start"
    /\ points = <<>>
    /\ grid_256_buckets = <<>>
    /\ tasks = <<>>
    /\ grid_256_data = EmptyMap
    /\ grid_128_data = EmptyMap
    /\ grid_64_data = EmptyMap
    /\ written = <<>>
    /\ exit_status = "running"

Init ==
    /\ input \in Inputs
    /\ images = EmptyMap
    /\ run = 1
    /\ Fresh

\* except Exception: ... sys.exit(1)
Fail ==
    /\ pc' = "failed"
    /\ exit_status' = "1"

\* generate_grids: points = self.load_and_normalize()
Load ==
    /\ pc = "start"
    /\ LET r == load_and_normalize(input)
       IN  IF r.raised
           THEN Fail /\ UNCHANGED points
           ELSE /\ points' = r.points
                /\ pc' = "bucket"
                /\ UNCHANGED exit_status
    /\ UNCHANGED <<input, images, run, grid_256_buckets, tasks,
                   grid_256_data, grid_128_data, grid_64_data, written>>

\* generate_grids: the bucket loop and the creation of the tasks
Bucket ==
    /\ pc = "bucket"
    /\ IF BucketRaises(points)
       THEN Fail /\ UNCHANGED <<grid_256_buckets, tasks>>
       ELSE /\ grid_256_buckets' = BucketPoints(points)
            /\ tasks' = [i \in 1..Len(BucketPoints(points)) |-> NewTask(BucketPoints(points)[i])]
            /\ pc' = "tasks"
            /\ UNCHANGED exit_status
    /\ UNCHANGED <<input, images, run, points,
                   grid_256_data, grid_128_data, grid_64_data, written>>

\* the event loop runs task i from its start to its first suspension; the
\* tasks of a gather start in order, before any response is handled
TaskStart(i) ==
    /\ pc = "tasks"
    /\ tasks[i].state = "created"
    /\ \A j \in 1..(i - 1) : tasks[j].state # "created"
    /\ LET t == [tasks[i] EXCEPT !.sorted_points =
                    SortedPoints(tasks[i].cell_points, tasks[i].cell_x, tasks[i].cell_y)]
       IN  \E t2 \in TryCandidate(t, images, 1) : tasks' = [tasks EXCEPT ![i] = t2]
    /\ UNCHANGED <<input, images, run, pc, points, grid_256_buckets,
                   grid_256_data, grid_128_data, grid_64_data, written, exit_status>>

\* the session.get of task i returns (or raises): _download_image runs to its
\* end, and the task to its next suspension or to its return
FetchReturn(i) ==
    /\ pc = "tasks"
    /\ tasks[i].state = "fetching"
    /\ \A j \in 1..Len(tasks) : tasks[j].state # "created"
    /\ \E outcome \in FetchOutcomes :
          IF outcome = "ok"
          THEN /\ images' = [f \in DOMAIN images \cup {tasks[i].image_filename} |->
                                IF f = tasks[i].image_filename
                                THEN tasks[i].sorted_points[tasks[i].cand].url
                                ELSE images[f]]
               /\ \E t2 \in Succeeded(tasks[i], tasks[i].cand) :
                      tasks' = [tasks EXCEPT ![i] = t2]
          ELSE /\ UNCHANGED images
               /\ \E t2 \in TryCandidate(tasks[i], images, tasks[i].cand + 1) :
                      tasks' = [tasks EXCEPT ![i] = t2]
    /\ UNCHANGED <<input, run, pc, points, grid_256_buckets,
                   grid_256_data, grid_128_data, grid_64_data, written, exit_status>>

\* faulty variant, for sensitivity of the properties: one cell without a result empties the level
GatherResultsAllOrNothing(buckets, ts) ==
    IF \E i \in 1..Len(buckets) : ts[i].result = <<>>
    THEN EmptyMap
    ELSE [k \in {CellKey(buckets[i].key[1], buckets[i].key[2]) : i \in 1..Len(buckets)} |->
            ts[CHOOSE i \in 1..Len(buckets) :
                  CellKey(buckets[i].key[1], buckets[i].key[2]) = k].result[1]]

\* results = await gather(*tasks); for (cx, cy), res in zip(...): if res: ...
GatherResults(buckets, ts) ==
    LET kept == {i \in 1..Len(buckets) : ts[i].result # <<>>}
    IN  [k \in {CellKey(buckets[i].key[1], buckets[i].key[2]) : i \in kept} |->
            ts[CHOOSE i \in kept : CellKey(buckets[i].key[1], buckets[i].key[2]) = k].result[1]]

Gather ==
    /\ pc = "tasks"
    /\ \A i \in 1..Len(tasks) : tasks[i].state = "done"
    /\ grid_256_data' = GatherResults(grid_256_buckets, tasks)
    /\ pc' = "aggregate_128"
    /\ UNCHANGED <<input, images, run, points, grid_256_buckets, tasks,
                   grid_128_data, grid_64_data, written, exit_status>>

\* faulty variant, for sensitivity of the properties: the examples handed to the coarser cell are taken out of the children
Aggregate128Consuming ==
    /\ pc = "aggregate_128"
    /\ grid_128_data' = _aggregate_grid(grid_256_data, GRID_SIZES[2])
    /\ grid_256_data' = [k \in DOMAIN grid_256_data |->
                            [grid_256_data[k] EXCEPT !.examples = <<>>]]
    /\ pc' = "aggregate_64"
    /\ UNCHANGED <<input, images, run, points, grid_256_buckets, tasks,
                   grid_64_data, written, exit_status>>

Aggregate128 ==
    /\ pc = "aggregate_128"
    /\ grid_128_data' = _aggregate_grid(grid_256_data, GRID_SIZES[2])
    /\ pc' = "aggregate_64"
    /\ UNCHANGED <<input, images, run, points, grid_256_buckets, tasks,
                   grid_256_data, grid_64_data, written, exit_status>>

Aggregate64 ==
    /\ pc = "aggregate_64"
    /\ grid_64_data' = _aggregate_grid(grid_128_data, GRID_SIZES[3])
    /\ pc' = "save"
    /\ UNCHANGED <<input, images, run, points, grid_256_buckets, tasks,
                   grid_256_data, grid_128_data, written, exit_status>>

\* run_process: the three save_json_split calls, in order
Save ==
    /\ pc = "save"
    /\ written' = save_json_split(grid_64_data, "grid_64")
                  \o save_json_split(grid_128_data, "grid_128")
                  \o save_json_split(grid_256_data, "grid_256")
    /\ pc' = "done"
    /\ exit_status' = "0"
    /\ UNCHANGED <<input, images, run, points, grid_256_buckets, tasks,
                   grid_256_data, grid_128_data, grid_64_data>>

\* the step is run again on the same input and the same output directory
Rerun ==
    /\ pc \in {"done", "failed"}
    /\ run < MaxRuns
    /\ Len(input.rows) <= MaxRerunRows
    /\ run' = run + 1
    /\ pc' = "start"
    /\ points' = <<>>
    /\ grid_256_buckets' = <<>>
    /\ tasks' = <<>>
    /\ grid_256_data' = EmptyMap
    /\ grid_128_data' = EmptyMap
    /\ grid_64_data' = EmptyMap
    /\ written' = <<>>
    /\ exit_status' = "running"
    /\ UNCHANGED <<input, images>>

Next ==
    \/ Load
    \/ Bucket
    \/ \E i \in 1..Len(tasks) : TaskStart(i)
    \/ \E i \in 1..Len(tasks) : FetchReturn(i)
    \/ Gather
    \/ Aggregate128
    \/ Aggregate64
    \/ Save
    \/ Rerun

Spec == Init /\ [][Next]_vars

(***************************************************************************)
(* Dense inputs: the raw coordinates lie on 0..DenseMax, SubSteps steps    *)
(* across each sub-cell of a leaf cell.  Two far rows at the corners fix   *)
(* the ranges; the other rows, up to MaxDense of them, lie in leaf cell    *)
(* (1,1) at a few places of three of its sub-cells, in any order.  With    *)
(* more than FEW_POINTS of them the mini-grid branch of                    *)
(* _find_densest_point runs, with fewer its first branch, on points at     *)
(* different distances from the centre of the cell.                        *)
(***************************************************************************)
DenseMax == LEAF * MINI_GRID_SIZE * SubSteps

DenseBase == MINI_GRID_SIZE * SubSteps

\* one place of sub-cell (0,0), one of sub-cell (0,1), two of sub-cell (1,0)
DensePlaces ==
    {<<DenseBase, DenseBase>>, <<DenseBase, DenseBase + SubSteps>>,
     <<DenseBase + SubSteps, DenseBase>>, <<DenseBase + SubSteps + 1, DenseBase>>}

DenseRows(n) ==
    {[i \in 1..(n + 2) |->
        [x |-> IF i <= n THEN c[i][1] ELSE IF i = n + 1 THEN 0 ELSE DenseMax,
         y |-> IF i <= n THEN c[i][2] ELSE IF i = n + 1 THEN 0 ELSE DenseMax,
         url |-> Url(i), caption |-> Caption(i)]] :
        c \in [1..n -> DensePlaces]}

DenseInputs ==
    {[columns |-> ALL_COLUMNS, rows |-> r] :
        r \in UNION {DenseRows(n) : n \in 1..MaxDense}}

DenseInit ==
    /\ input \in DenseInputs
    /\ images = EmptyMap
    /\ run = 1
    /\ Fresh

\* one run of the step
DenseNext ==
    \/ Load
    \/ Bucket
    \/ \E i \in 1..Len(tasks) : TaskStart(i)
    \/ \E i \in 1..Len(tasks) : FetchReturn(i)
    \/ Gather
    \/ Aggregate128
    \/ Aggregate64
    \/ Save

DenseSpec == DenseInit /\ [][DenseNext]_vars

\* the response of a session.get that is awaited
FetchStep == \E i \in 1..Len(tasks) : FetchReturn(i)

\* one run in which every session.get that is awaited returns, raises or
\* times out (timeout=10), and in which the event loop resumes gather once
\* all its tasks are over
LiveSpec == DenseInit /\ [][DenseNext]_vars /\ WF_vars(FetchStep) /\ WF_vars(Gather)

(***************************************************************************)
(* run_process with its three save_json_split calls taken one at a time,   *)
(* each of which may raise (open or write fails)                           *)
(***************************************************************************)
\* faulty variant, for sensitivity of the properties: the finest level is saved first
SaveOrderFinestFirst == <<"grid_256", "grid_128", "grid_64">>

\* save_json_split(g64, "grid_64"); (g128, "grid_128"); (g256, "grid_256")
SaveOrder == <<"grid_64", "grid_128", "grid_256">>

\* g256, g128, g64 = await exporter.generate_grids()
LevelOf(base) ==
    IF base = "grid_64" THEN grid_64_data
    ELSE IF base = "grid_128" THEN grid_128_data
    ELSE grid_256_data

WriteOutcomes == {"ok", "raises"}

\* the next save_json_split call of run_process: it writes the files of its
\* level, or raises after some of its shards (none for an unsplit level)
SaveLevel ==
    /\ pc = "save"
    /\ LET saved == {written[i].name.base : i \in 1..Len(written)}
           n == Cardinality(saved) + 1
           files == save_json_split(LevelOf(SaveOrder[n]), SaveOrder[n])
       IN  \E outcome \in WriteOutcomes :
               IF outcome = "ok"
               THEN /\ written' = written \o files
                    /\ IF n = Len(SaveOrder)
                       THEN pc' = "done" /\ exit_status' = "0"
                       ELSE UNCHANGED <<pc, exit_status>>
               ELSE /\ \E k \in 0..(Len(files) - 1) : written' = written \o Take(files, k)
                    /\ Fail
    /\ UNCHANGED <<input, images, run, points, grid_256_buckets, tasks,
                   grid_256_data, grid_128_data, grid_64_data>>

StepNext ==
    \/ Load
    \/ Bucket
    \/ \E i \in 1..Len(tasks) : TaskStart(i)
    \/ \E i \in 1..Len(tasks) : FetchReturn(i)
    \/ Gather
    \/ Aggregate128
    \/ Aggregate64
    \/ SaveLevel

StepSpec == Init /\ [][StepNext]_vars

(***************************************************************************)
(* Properties.                                                             *)
(***************************************************************************)
Built128 == pc \in {"aggregate_64", "save", "done"}

Built64 == pc \in {"save", "done"}

Built256 == pc \in {"aggregate_128", "aggregate_64", "save", "done"}

Cells(n) == (0..(n - 1)) \X (0..(n - 1))

KeyOf(c) == CellKey(c[1], c[2])

ChildrenOf(c) == {<<2 * c[1] + dx, 2 * c[2] + dy>> : dx \in {0, 1}, dy \in {0, 1}}

RECURSIVE SumOfCounts(_, _)
SumOfCounts(grid, keys) ==
    IF keys = {} THEN 0
    ELSE LET k == CHOOSE j \in keys : TRUE
         IN  grid[k].count + SumOfCounts(grid, keys \ {k})

PresentKeys(grid, cells) == {KeyOf(d) : d \in cells} \cap DOMAIN grid

\* every key of the level is the key of a cell of an n x n grid
WellKeyed(grid, n) == DOMAIN grid \subseteq {KeyOf(c) : c \in Cells(n)}

\* the bucketed position of row i at resolution n
RowCell(i, n) ==
    <<Min2(FInt(FMul(points[i].x, Num(n))), n - 1),
      Min2(FInt(FMul(points[i].y, Num(n))), n - 1)>>

\* the rows whose bucketed position at resolution n is cell c
RowsAt(n, c) == {i \in 1..Len(points) : RowCell(i, n) = c}

\* C1: every coarse cell's count is the sum of the counts of its children
\* present in the finer level, for 256->128 and for 128->64.
Conserved(lower, upper, n) ==
    /\ WellKeyed(upper, n)
    /\ \A c \in Cells(n) :
          KeyOf(c) \in DOMAIN upper =>
              upper[KeyOf(c)].count = SumOfCounts(lower, PresentKeys(lower, ChildrenOf(c)))

\* C1: at levels 128 and 64 a cell's count equals the sum of the counts of its
\* children present in the finer level.
C1_AggregationConserves ==
    /\ Built128 => Conserved(grid_256_data, grid_128_data, GRID_SIZES[2])
    /\ Built64 => Conserved(grid_128_data, grid_64_data, GRID_SIZES[3])

C1_Witness ==
    /\ pc = "done"
    /\ \E c \in Cells(GRID_SIZES[2]) :
          /\ Cardinality(PresentKeys(grid_256_data, ChildrenOf(c))) >= 2
          /\ grid_128_data[KeyOf(c)].count >= 3
    /\ \E c \in Cells(GRID_SIZES[3]) :
          Cardinality(PresentKeys(grid_128_data, ChildrenOf(c))) >= 2

\* C2 as stated: at every level the count of a present cell is the number of
\* input points bucketed into it, whatever the fetches did.
CountsAllPoints(grid, n) ==
    /\ WellKeyed(grid, n)
    /\ \A c \in Cells(n) :
          KeyOf(c) \in DOMAIN grid => grid[KeyOf(c)].count = Cardinality(RowsAt(n, c))

\* C2 as stated: at every built level a present cell's count is the number of
\* input points bucketed into that cell.
C2_CountIsPointsInCell ==
    pc = "done" =>
        /\ CountsAllPoints(grid_256_data, GRID_SIZES[1])
        /\ CountsAllPoints(grid_128_data, GRID_SIZES[2])
        /\ CountsAllPoints(grid_64_data, GRID_SIZES[3])

\* C2 amended: at the finest level the count of a present cell is the number
\* of input points bucketed into it; at levels 128 and 64 it is the number of
\* input points bucketed into it whose finest cell has a record.
RowsKept(n, c) ==
    {i \in RowsAt(n, c) : KeyOf(RowCell(i, LEAF)) \in DOMAIN grid_256_data}

CountsKeptPoints(grid, n) ==
    /\ WellKeyed(grid, n)
    /\ \A c \in Cells(n) :
          KeyOf(c) \in DOMAIN grid => grid[KeyOf(c)].count = Cardinality(RowsKept(n, c))

\* C2 amended: at level 256 a present cell's count is the number of input
\* points bucketed into it; at levels 128 and 64 it counts only the points
\* whose finest cell has a record.
C2_CountIsKeptPointsInCell ==
    pc = "done" =>
        /\ CountsAllPoints(grid_256_data, GRID_SIZES[1])
        /\ CountsKeptPoints(grid_128_data, GRID_SIZES[2])
        /\ CountsKeptPoints(grid_64_data, GRID_SIZES[3])

C2_Witness ==
    /\ pc = "done"
    /\ \E c \in Cells(GRID_SIZES[2]) :
          /\ KeyOf(c) \in DOMAIN grid_128_data
          /\ grid_128_data[KeyOf(c)].count >= 2
          /\ grid_128_data[KeyOf(c)].count < Cardinality(RowsAt(GRID_SIZES[2], c))
    /\ \E c \in Cells(GRID_SIZES[1]) :
          /\ KeyOf(c) \in DOMAIN grid_256_data
          /\ grid_256_data[KeyOf(c)].count >= 2

\* C3: the counts of the finest records add up to the number of input points
\* in cells whose image was acquired; a cell whose candidates all failed has
\* no record.
Acquired(c) == ImageFilename(c[1], c[2]) \in DOMAIN images

\* C3: the finest counts add up to the number of input points lying in cells
\* whose image was acquired, and a cell without an image has no record.
C3_FinestSumIsAcquiredPoints ==
    Built256 =>
        /\ WellKeyed(grid_256_data, LEAF)
        /\ SumOfCounts(grid_256_data, DOMAIN grid_256_data)
             = Cardinality({i \in 1..Len(points) : Acquired(RowCell(i, LEAF))})
        /\ \A c \in Cells(LEAF) : ~Acquired(c) => KeyOf(c) \notin DOMAIN grid_256_data

C3_Witness ==
    /\ pc = "done"
    /\ \E c \in Cells(LEAF) :
          /\ Cardinality(RowsAt(LEAF, c)) > TOP_CANDIDATES
          /\ ~Acquired(c)
    /\ DOMAIN grid_256_data # {}

\* C4: the img of a coarse cell is the img of a child of maximal count, and
\* every img at levels 128 and 64 is the img of a finest-level record.
ImgOfBestChild(lower, upper, n) ==
    \A c \in Cells(n) :
        KeyOf(c) \in DOMAIN upper =>
            \E k \in PresentKeys(lower, ChildrenOf(c)) :
                /\ upper[KeyOf(c)].img = lower[k].img
                /\ \A j \in PresentKeys(lower, ChildrenOf(c)) : lower[j].count <= lower[k].count

Imgs(grid) == {grid[k].img : k \in DOMAIN grid}

\* C4: a coarse cell's img is that of a child of maximal count, so every img
\* of levels 128 and 64 is the img of some finest-level record.
C4_ImageReuse ==
    /\ Built128 => /\ ImgOfBestChild(grid_256_data, grid_128_data, GRID_SIZES[2])
                   /\ Imgs(grid_128_data) \subseteq Imgs(grid_256_data)
    /\ Built64 => /\ ImgOfBestChild(grid_128_data, grid_64_data, GRID_SIZES[3])
                  /\ Imgs(grid_64_data) \subseteq Imgs(grid_256_data)

C4_Witness ==
    /\ pc = "done"
    /\ \E c \in Cells(GRID_SIZES[3]) :
          /\ Cardinality(PresentKeys(grid_128_data, ChildrenOf(c))) >= 2
          /\ KeyOf(<<2 * c[1], 2 * c[2]>>) \in DOMAIN grid_128_data
          /\ grid_64_data[KeyOf(c)].img # grid_128_data[KeyOf(<<2 * c[1], 2 * c[2]>>)].img
    /\ \E c \in Cells(GRID_SIZES[2]) :
          /\ Cardinality(PresentKeys(grid_256_data, ChildrenOf(c))) = 2
          /\ KeyOf(<<2 * c[1] + 1, 2 * c[2] + 1>>) \in DOMAIN grid_256_data
          /\ grid_128_data[KeyOf(c)].img = grid_256_data[KeyOf(<<2 * c[1] + 1, 2 * c[2] + 1>>)].img

\* C5: at every level the examples of a cell number at most EXAMPLES_PER_CELL.
ExamplesBounded(grid) == \A k \in DOMAIN grid : Len(grid[k].examples) <= EXAMPLES_PER_CELL

\* C5: at every built level no cell has more than EXAMPLES_PER_CELL examples.
C5_ExamplesBounded ==
    /\ Built256 => ExamplesBounded(grid_256_data)
    /\ Built128 => ExamplesBounded(grid_128_data)
    /\ Built64 => ExamplesBounded(grid_64_data)

C5_Witness ==
    /\ pc = "done"
    /\ \E k \in DOMAIN grid_256_data :
          /\ grid_256_data[k].count > EXAMPLES_PER_CELL
          /\ Len(grid_256_data[k].examples) = EXAMPLES_PER_CELL
    /\ \E c \in Cells(GRID_SIZES[3]) :
          /\ SumSeq([i \in 1..Len(Children(grid_128_data, c[1], c[2])) |->
                       Len(Children(grid_128_data, c[1], c[2])[i].examples)]) > EXAMPLES_PER_CELL
          /\ Len(grid_64_data[KeyOf(c)].examples) = EXAMPLES_PER_CELL

\* C6: every key of every level has count >= 1, and a coarse cell is present
\* exactly when one of its four children is present in the finer level.
Sparse(lower, upper, n) ==
    /\ WellKeyed(upper, n)
    /\ \A c \in Cells(n) :
          KeyOf(c) \in DOMAIN upper <=> PresentKeys(lower, ChildrenOf(c)) # {}

Populated(grid) == \A k \in DOMAIN grid : grid[k].count >= 1

\* C6: every present cell has count >= 1, and a coarse cell is present exactly
\* when one of its children is present in the finer level.
C6_Sparsity ==
    /\ Built256 => Populated(grid_256_data)
    /\ Built128 => Populated(grid_128_data) /\ Sparse(grid_256_data, grid_128_data, GRID_SIZES[2])
    /\ Built64 => Populated(grid_64_data) /\ Sparse(grid_128_data, grid_64_data, GRID_SIZES[3])

C6_Witness ==
    /\ pc = "done"
    /\ \E c, d \in Cells(GRID_SIZES[2]) :
          /\ Cardinality(PresentKeys(grid_256_data, ChildrenOf(c))) = 1
          /\ PresentKeys(grid_256_data, ChildrenOf(d)) = {}
          /\ KeyOf(c) \in DOMAIN grid_128_data
          /\ KeyOf(d) \notin DOMAIN grid_128_data
          /\ RowsAt(GRID_SIZES[2], d) # {}

\* C7: a task requests its candidates in ascending squared distance to the
\* Selector's representative, never skipping a closer point, at most
\* TOP_CANDIDATES of them; the record carries the url and caption of the
\* candidate whose attempt succeeded, which is the last one attempted.
Representative(t) == _find_densest_point(t.cell_points, CellBounds(t.cell_x, t.cell_y))

\* the squared distance of every point of the cell to the representative
Distances(t) ==
    LET rep == Representative(t)
    IN  [j \in 1..Len(t.cell_points) |-> Dist2(t.cell_points[j], rep.x, rep.y)]

\* the position in the cell's list of the point with url u
RowOfUrl(t, u) == CHOOSE j \in 1..Len(t.cell_points) : t.cell_points[j].url = u

AttemptsInOrder(t) ==
    LET d == Distances(t)
        at == [j \in 1..Len(t.gets) |-> RowOfUrl(t, t.gets[j])]
    IN  /\ Len(t.gets) <= TOP_CANDIDATES
        /\ \A j \in 1..Len(t.gets) : \E q \in 1..Len(t.cell_points) : t.cell_points[q].url = t.gets[j]
        /\ \A j, k \in 1..Len(t.gets) :
              j < k => at[j] # at[k] /\ ~FLess(d[at[k]], d[at[j]])
        /\ \A q \in 1..Len(t.cell_points) :
              q \notin Range(at) => \A j \in 1..Len(t.gets) : ~FLess(d[q], d[at[j]])

FirstSuccessIsFinal(t) ==
    LET d == Distances(t)
    IN  t.state = "done" =>
            IF t.result = <<>>
            THEN Len(t.gets) = Min2(TOP_CANDIDATES, Len(t.cell_points))
            ELSE /\ \E q \in 1..Len(t.cell_points) :
                       /\ t.cell_points[q].url = t.result[1].url
                       /\ t.cell_points[q].caption = t.result[1].caption
                 /\ IF t.gets = <<>>
                    THEN \A q \in 1..Len(t.cell_points) :
                            ~FLess(d[q], d[RowOfUrl(t, t.result[1].url)])
                    ELSE t.result[1].url = t.gets[Len(t.gets)]

\* C7: every started task requests its candidates in ascending distance to
\* the representative, at most TOP_CANDIDATES of them, and its record is that
\* of the first candidate whose attempt succeeded.
C7_CandidatesInOrder ==
    pc = "tasks" =>
        \A i \in 1..Len(tasks) :
            tasks[i].state # "created" => AttemptsInOrder(tasks[i]) /\ FirstSuccessIsFinal(tasks[i])

C7_Witness ==
    /\ pc = "tasks"
    /\ \E i \in 1..Len(tasks) :
          /\ tasks[i].state = "done"
          /\ tasks[i].result # <<>>
          /\ Len(tasks[i].cell_points) > TOP_CANDIDATES
          /\ Len(tasks[i].gets) = TOP_CANDIDATES
          /\ tasks[i].result[1].url # Representative(tasks[i]).url
          /\ tasks[i].gets[1] # tasks[i].cell_points[1].url
          /\ \E q \in 1..Len(tasks[i].cell_points) :
                FLess(Distances(tasks[i])[RowOfUrl(tasks[i], tasks[i].result[1].url)],
                      Distances(tasks[i])[q])

\* C8: a cell whose attempts all failed has no record and the run goes on:
\* the run fails only before any task exists, every cell whose image was
\* acquired has a record made of its own points alone, and a finished run
\* has exit status 0 and has written the three levels.
OwnRecord(rec, bucket) ==
    /\ rec.count = Len(bucket.pts)
    /\ rec.img = ImagePath(ImageFilename(bucket.key[1], bucket.key[2]))
    /\ \E p \in Range(bucket.pts) : rec.url = p.url /\ rec.caption = p.caption
    /\ \A j \in 1..Len(rec.examples) :
          \E p \in Range(bucket.pts) :
              rec.examples[j].url = p.url /\ rec.examples[j].caption = p.caption

\* C8: a cell whose attempts all failed is dropped and nothing else changes:
\* the run fails only before tasks exist, each record is made of its own
\* cell's points, and a finished run exits 0 with the three levels written.
C8_FailedCellIsDroppedOnly ==
    /\ exit_status = "1" => tasks = <<>>
    /\ pc = "tasks" =>
          \A i \in 1..Len(tasks) :
              (tasks[i].state = "done" /\ tasks[i].image_filename \notin DOMAIN images)
                  => tasks[i].result = <<>>
    /\ Built256 =>
          \A i \in 1..Len(grid_256_buckets) :
              IF ImageFilename(grid_256_buckets[i].key[1], grid_256_buckets[i].key[2]) \in DOMAIN images
              THEN /\ KeyOf(grid_256_buckets[i].key) \in DOMAIN grid_256_data
                   /\ OwnRecord(grid_256_data[KeyOf(grid_256_buckets[i].key)], grid_256_buckets[i])
              ELSE KeyOf(grid_256_buckets[i].key) \notin DOMAIN grid_256_data
    /\ pc = "done" =>
          /\ exit_status = "0"
          /\ {written[i].name.base : i \in 1..Len(written)} = {"grid_64", "grid_128", "grid_256"}

C8_Witness ==
    /\ pc = "done"
    /\ exit_status = "0"
    /\ \E i, j \in 1..Len(tasks) :
          /\ tasks[i].result = <<>>
          /\ Len(tasks[i].gets) = TOP_CANDIDATES
          /\ KeyOf(grid_256_buckets[i].key) \notin DOMAIN grid_256_data
          /\ Len(tasks[j].gets) = TOP_CANDIDATES
          /\ KeyOf(grid_256_buckets[j].key) \in DOMAIN grid_256_data
    /\ \E i \in 1..Len(written) : written[i].name.base = "grid_256" /\ DOMAIN written[i].data # {}

\* C9: a task that starts while the image file of its cell exists finishes
\* at once with a record and without a fetch, and a file that exists is
\* neither rewritten nor removed.
C9_ExistingFileIsReused ==
    [][/\ (pc = "tasks" /\ pc' = "tasks") =>
            \A i \in 1..Len(tasks) :
                (/\ tasks[i].state = "created"
                 /\ tasks'[i].state # "created"
                 /\ tasks[i].image_filename \in DOMAIN images)
                    => /\ tasks'[i].state = "done"
                       /\ tasks'[i].result # <<>>
                       /\ tasks'[i].gets = <<>>
       /\ \A f \in DOMAIN images : f \in DOMAIN images' /\ images'[f] = images[f]]_vars

C9_Witness ==
    /\ run = 2
    /\ pc = "tasks"
    /\ \E i, j \in 1..Len(tasks) :
          /\ tasks[i].state = "done"
          /\ tasks[i].result # <<>>
          /\ tasks[i].gets = <<>>
          /\ Len(tasks[i].cell_points) >= 2
          /\ tasks[j].state = "done"
          /\ tasks[j].gets # <<>>

\* C10: when a level is written in parts, the key sets of the parts are
\* pairwise disjoint, their union is the key set of the level, and every key
\* carries the record it has in the level.
FilesOf(base) == {i \in 1..Len(written) : written[i].name.base = base}

IsSplit(base) == \E i \in FilesOf(base) : written[i].name.part >= 1

PartsPartition(base, grid) ==
    IsSplit(base) =>
        /\ \A i, j \in FilesOf(base) :
              i # j => DOMAIN written[i].data \cap DOMAIN written[j].data = {}
        /\ UNION {DOMAIN written[i].data : i \in FilesOf(base)} = DOMAIN grid
        /\ \A i \in FilesOf(base) : \A k \in DOMAIN written[i].data :
              k \in DOMAIN grid /\ written[i].data[k] = grid[k]

\* C10: the files written for a level partition its keys in sorted order into
\* contiguous shards carrying the level's own records.
C10_ShardsPartitionKeys ==
    pc = "done" =>
        /\ PartsPartition("grid_64", grid_64_data)
        /\ PartsPartition("grid_128", grid_128_data)
        /\ PartsPartition("grid_256", grid_256_data)

C10_Witness ==
    /\ pc = "done"
    /\ Cardinality(DOMAIN grid_256_data) >= 3
    /\ \E i, j \in FilesOf("grid_256") :
          /\ i # j
          /\ written[i].name.part >= 1
          /\ Cardinality(DOMAIN written[i].data) >= 2
          /\ DOMAIN written[j].data # {}

\* the number of keys of a level that come before k in string order
KeysBefore(grid, k) == Cardinality({j \in DOMAIN grid : StrLess(j, k)})

\* the least q with q * d >= n, for d >= 1
LeastMultiple(n, d) == CHOOSE q \in 0..n : q * d >= n /\ (q = 0 \/ (q - 1) * d < n)

\* the shards of an oversized level: as many files as the budget goes into
\* the size, rounded up, numbered from 1 and written in that order, file p
\* holding the keys of sorted rank (p-1)*chunk+1 .. p*chunk in that order
ShardsAreSlices(base, grid) ==
    LET size == JsonSize(grid)
        n == Cardinality(DOMAIN grid)
        parts == LeastMultiple(size, MAX_JSON_MB)
        chunk == LeastMultiple(n, parts)
        files == SelectSeq(written, LAMBDA f : f.name.base = base)
    IN  size > MAX_JSON_MB =>
            /\ Len(files) = parts
            /\ \A p \in 1..Len(files) :
                  LET f == files[p]
                      first == (p - 1) * chunk
                      last == Min2(p * chunk, n)
                  IN  /\ f.name.part = p
                      /\ Len(f.order) = (IF last > first THEN last - first ELSE 0)
                      /\ \A j \in 1..Len(f.order) :
                            /\ f.order[j] \in DOMAIN grid
                            /\ KeysBefore(grid, f.order[j]) = first + j - 1
                      /\ DOMAIN f.data = Range(f.order)

\* C11: a level whose size exceeds the budget is written as exactly
\* ceil(size/budget) shards numbered 1..parts, shard i holding the i-th slice
\* of ceil(itemCount/parts) entries of the key-sorted list, so the shards in
\* part order spell the key-sorted sequence.
C11_ShardsAreSortedSlices ==
    pc = "done" =>
        /\ ShardsAreSlices("grid_64", grid_64_data)
        /\ ShardsAreSlices("grid_128", grid_128_data)
        /\ ShardsAreSlices("grid_256", grid_256_data)

C11_Witness ==
    /\ pc = "done"
    /\ JsonSize(grid_256_data) > 2 * MAX_JSON_MB
    /\ \E i \in FilesOf("grid_256") :
          /\ written[i].name.part = 2
          /\ Len(written[i].order) >= 2
    /\ \E i \in FilesOf("grid_128") : written[i].name.part = 2

\* the raw values of a column of the input
RawValues(col) == {input.rows[i][col] : i \in 1..Len(input.rows)}

\* the three input-level defects: a column the program reads is missing, the
\* point set is empty, an axis has a single raw value
MissingColumn == ~(ALL_COLUMNS \subseteq input.columns)

EmptyPointSet == ~MissingColumn /\ input.rows = <<>>

ZeroRange ==
    /\ ~MissingColumn
    /\ input.rows # <<>>
    /\ (Cardinality(RawValues("x")) = 1 \/ Cardinality(RawValues("y")) = 1)

\* the run so far has neither requested an image nor written a level file,
\* and it has not ended with exit status 0
NothingDone ==
    /\ exit_status # "0"
    /\ pc # "done"
    /\ written = <<>>
    /\ \A i \in 1..Len(tasks) : tasks[i].gets = <<>>

\* the run has ended with a non-zero exit status
Aborted == pc = "failed" /\ exit_status = "1"

\* C12: a run over an input with a missing column, no point or a zero range
\* on an axis aborts with a non-zero exit status, requests no image and
\* writes no level file.
C12_FatalInputAborts ==
    (MissingColumn \/ EmptyPointSet \/ ZeroRange) =>
        /\ NothingDone
        /\ pc \notin {"start", "bucket"} => Aborted

\* what the program does keep: a missing column or a zero range aborts the run
MissingOrDegenerateAborts ==
    (MissingColumn \/ ZeroRange) =>
        /\ NothingDone
        /\ pc \notin {"start", "bucket"} => Aborted

\* a run over an input without rows ends with status 0 and three files
EmptyInputCompletes ==
    /\ EmptyPointSet
    /\ pc = "done"
    /\ exit_status = "0"
    /\ Len(written) = 3

\* a coordinate that is a number of [0, 1]
InUnit(a) == ~IsNaN(a) /\ ~FLess(a, Num(0)) /\ ~FLess(Num(1), a)

\* load_and_normalize has returned a list (generate_grids went on to the buckets)
Returned == pc = "bucket"

\* C13: load_and_normalize fails, and returns no list, on an empty point list
\* and on an axis of zero range, and every point of a list it returns has
\* both coordinates in [0, 1].
C13_NormalizerRejects ==
    /\ (ZeroRange \/ EmptyPointSet) => ~Returned
    /\ Returned => \A i \in 1..Len(points) : InUnit(points[i].x) /\ InUnit(points[i].y)

\* what the normalizer does on each kind of input
NormalizerAsCoded ==
    Returned =>
        /\ ~MissingColumn
        /\ Len(points) = Len(input.rows)
        /\ \A i \in 1..Len(points) :
              /\ IF Cardinality(RawValues("x")) = 1 THEN IsNaN(points[i].x) ELSE InUnit(points[i].x)
              /\ IF Cardinality(RawValues("y")) = 1 THEN IsNaN(points[i].y) ELSE InUnit(points[i].y)

\* a list with a NaN coordinate has been returned
NaNReturned ==
    /\ Returned
    /\ \E i \in 1..Len(points) : IsNaN(points[i].y) /\ InUnit(points[i].x)

\* generate_grids has built the buckets
Bucketed == pc \in {"tasks", "aggregate_128", "aggregate_64", "save", "done"}

\* k is the index of coordinate v on an axis cut into LEAF equal cells, the
\* last of which takes the upper boundary
IndexFits(v, k) ==
    /\ k \in 0..(LEAF - 1)
    /\ ~FLess(v, Frac(k, LEAF))
    /\ (FLess(v, Frac(k + 1, LEAF)) \/ k = LEAF - 1)

\* the places <<bucket, position>> where point p is stored
PlacesOf(p) ==
    {<<b, j>> \in (1..Len(grid_256_buckets)) \X (1..Len(points)) :
        j <= Len(grid_256_buckets[b].pts) /\ grid_256_buckets[b].pts[j] = p}

\* C14: every normalized point is stored once, in the bucket of the cell
\* (min(floor(x*LEAF), LEAF-1), min(floor(y*LEAF), LEAF-1)); the indices stay
\* in 0..LEAF-1, a coordinate of 1 goes to the last index, the buckets have
\* distinct keys, hold nothing but points, and none is empty.
C14_BucketsPartitionPoints ==
    Bucketed =>
        /\ \A b \in 1..Len(grid_256_buckets) :
              /\ grid_256_buckets[b].key \in Cells(LEAF)
              /\ grid_256_buckets[b].pts # <<>>
              /\ Range(grid_256_buckets[b].pts) \subseteq Range(points)
              /\ \A c \in 1..Len(grid_256_buckets) :
                    b # c => grid_256_buckets[b].key # grid_256_buckets[c].key
        /\ \A i \in 1..Len(points) :
              /\ Cardinality(PlacesOf(points[i])) = 1
              /\ \A pl \in PlacesOf(points[i]) :
                    /\ IndexFits(points[i].x, grid_256_buckets[pl[1]].key[1])
                    /\ IndexFits(points[i].y, grid_256_buckets[pl[1]].key[2])
                    /\ points[i].x = Num(1) => grid_256_buckets[pl[1]].key[1] = LEAF - 1
                    /\ points[i].y = Num(1) => grid_256_buckets[pl[1]].key[2] = LEAF - 1

C14_Witness ==
    /\ pc = "tasks"
    /\ Len(grid_256_buckets) >= 3
    /\ \E b \in 1..Len(grid_256_buckets) :
          /\ grid_256_buckets[b].key = <<LEAF - 1, LEAF - 1>>
          /\ \E p, q \in Range(grid_256_buckets[b].pts) :
                p.x = Num(1) /\ p.y = Num(1) /\ FLess(q.x, Num(1))

\* the n-th child of coarse cell c in the order (dx,dy) = (0,0),(0,1),(1,0),(1,1)
ChildAt(c, n) == <<2 * c[1] + ((n - 1) \div 2), 2 * c[2] + ((n - 1) % 2)>>

\* the positions 1..4 of the children of c that are present in the finer level
PresentAt(lower, c) == {n \in 1..4 : KeyOf(ChildAt(c, n)) \in DOMAIN lower}

\* the present child of maximal count that comes first in the fixed order
FirstMaximal(lower, c) ==
    CHOOSE n \in PresentAt(lower, c) :
        \A m \in PresentAt(lower, c) :
            /\ lower[KeyOf(ChildAt(c, m))].count <= lower[KeyOf(ChildAt(c, n))].count
            /\ m < n => lower[KeyOf(ChildAt(c, m))].count < lower[KeyOf(ChildAt(c, n))].count

FieldsOfFirstMaximal(lower, upper, size) ==
    \A c \in Cells(size) :
        KeyOf(c) \in DOMAIN upper =>
            /\ PresentAt(lower, c) # {}
            /\ LET best == lower[KeyOf(ChildAt(c, FirstMaximal(lower, c)))]
               IN  /\ upper[KeyOf(c)].img = best.img
                   /\ upper[KeyOf(c)].url = best.url
                   /\ upper[KeyOf(c)].caption = best.caption

\* C15: the img, url and caption of a coarse cell are those of one child, the
\* present child of maximal count, the first such child in the order
\* (0,0),(0,1),(1,0),(1,1) when several have that count.
C15_BestChildIsFirstMaximal ==
    /\ Built128 => FieldsOfFirstMaximal(grid_256_data, grid_128_data, GRID_SIZES[2])
    /\ Built64 => FieldsOfFirstMaximal(grid_128_data, grid_64_data, GRID_SIZES[3])

\* a coarse cell with two children of the same, maximal count and another
\* whose best child is not its first present child
C15_Witness ==
    /\ Built64
    /\ \E c \in Cells(GRID_SIZES[2]) :
          \E m, n \in PresentAt(grid_256_data, c) :
              /\ m < n
              /\ FirstMaximal(grid_256_data, c) = m
              /\ grid_256_data[KeyOf(ChildAt(c, m))].count = grid_256_data[KeyOf(ChildAt(c, n))].count
              /\ grid_256_data[KeyOf(ChildAt(c, m))].url # grid_256_data[KeyOf(ChildAt(c, n))].url
    /\ \E c \in Cells(GRID_SIZES[3]) :
          \E m \in PresentAt(grid_128_data, c) :
              /\ m < FirstMaximal(grid_128_data, c)
              /\ grid_64_data[KeyOf(c)].url # grid_128_data[KeyOf(ChildAt(c, m))].url

\* the first n elements of s, all of s when it is shorter
FirstOf(s, n) == [j \in 1..(IF n < Len(s) THEN n ELSE Len(s)) |-> s[j]]

\* what the n-th child of c gives to the examples of c: nothing when it is
\* absent, else its first ceil(cap / number of present children) examples
ShareOf(lower, c, n) ==
    IF n \in PresentAt(lower, c)
    THEN FirstOf(lower[KeyOf(ChildAt(c, n))].examples,
                 LeastMultiple(EXAMPLES_PER_CELL, Cardinality(PresentAt(lower, c))))
    ELSE <<>>

ExamplesAreShares(lower, upper, size) ==
    \A c \in Cells(size) :
        KeyOf(c) \in DOMAIN upper =>
            /\ upper[KeyOf(c)].examples =
                  FirstOf(ShareOf(lower, c, 1) \o ShareOf(lower, c, 2)
                            \o ShareOf(lower, c, 3) \o ShareOf(lower, c, 4),
                          EXAMPLES_PER_CELL)
            /\ \A j \in 1..Len(upper[KeyOf(c)].examples) :
                  \E n \in PresentAt(lower, c) :
                      upper[KeyOf(c)].examples[j] \in Range(lower[KeyOf(ChildAt(c, n))].examples)

\* C16: the examples of a coarse cell are the first ceil(cap/present children)
\* examples of each present child, in the child's order, concatenated in the
\* order (0,0),(0,1),(1,0),(1,1) and cut to the cap; each is an example of a child.
C16_ExamplesAreChildShares ==
    /\ Built128 => ExamplesAreShares(grid_256_data, grid_128_data, GRID_SIZES[2])
    /\ Built64 => ExamplesAreShares(grid_128_data, grid_64_data, GRID_SIZES[3])

\* a coarse cell of two children, one of which gives fewer examples than it
\* has, and a coarser cell whose examples come from two children
C16_Witness ==
    /\ Built64
    /\ \E c \in Cells(GRID_SIZES[2]) :
          /\ Cardinality(PresentAt(grid_256_data, c)) = 2
          /\ \E n \in PresentAt(grid_256_data, c) :
                Len(ShareOf(grid_256_data, c, n)) < Len(grid_256_data[KeyOf(ChildAt(c, n))].examples)
          /\ Len(grid_128_data[KeyOf(c)].examples) = EXAMPLES_PER_CELL
    /\ \E c \in Cells(GRID_SIZES[3]) :
          \E m, n \in PresentAt(grid_128_data, c) :
              /\ m < n
              /\ grid_64_data[KeyOf(c)].examples =
                    ShareOf(grid_128_data, c, m) \o ShareOf(grid_128_data, c, n)
              /\ ShareOf(grid_128_data, c, m) # <<>>
              /\ ShareOf(grid_128_data, c, n) # <<>>
              /\ Len(ShareOf(grid_128_data, c, n)) < Len(grid_128_data[KeyOf(ChildAt(c, n))].examples)

\* a coarse cell of three or more children: the concatenation of the shares
\* is longer than the cap and the share of the last child is cut off
TruncatedMerge ==
    /\ Built64
    /\ \E c \in Cells(GRID_SIZES[3]) :
          /\ Cardinality(PresentAt(grid_128_data, c)) >= 3
          /\ \E n \in PresentAt(grid_128_data, c) :
                /\ ShareOf(grid_128_data, c, n) # <<>>
                /\ \A j \in 1..Len(grid_64_data[KeyOf(c)].examples) :
                      grid_64_data[KeyOf(c)].examples[j] \notin Range(ShareOf(grid_128_data, c, n))

\* a task that has run its selector on a cell of more than FEW_POINTS points
DenseTask(t) == t.state # "created" /\ Len(t.cell_points) > FEW_POINTS

\* k is the index of coordinate v among the MINI_GRID_SIZE equal parts of
\* leaf cell number cell on that axis, the last part taking the upper boundary
SubIndexFits(v, cell, k) ==
    /\ ~FLess(v, Frac(cell * MINI_GRID_SIZE + k, LEAF * MINI_GRID_SIZE))
    /\ (FLess(v, Frac(cell * MINI_GRID_SIZE + k + 1, LEAF * MINI_GRID_SIZE))
          \/ k = MINI_GRID_SIZE - 1)

SubCells == (0..(MINI_GRID_SIZE - 1)) \X (0..(MINI_GRID_SIZE - 1))

\* the sub-cell of the j-th point of the cell of t
SubCellOf(t, j) ==
    CHOOSE m \in SubCells :
        /\ SubIndexFits(t.cell_points[j].x, t.cell_x, m[1])
        /\ SubIndexFits(t.cell_points[j].y, t.cell_y, m[2])

\* the positions in the cell's list of the points of sub-cell m
PointsIn(t, m) == {j \in 1..Len(t.cell_points) : SubCellOf(t, j) = m}

\* the sub-cells that hold the largest number of points
Crowded(t) ==
    {m \in SubCells :
        /\ PointsIn(t, m) # {}
        /\ \A n \in SubCells : Cardinality(PointsIn(t, n)) <= Cardinality(PointsIn(t, m))}

\* among them, the lowest (mx, my)
RowMajorFirst(t) ==
    CHOOSE m \in Crowded(t) :
        \A n \in Crowded(t) : m = n \/ m[1] < n[1] \/ (m[1] = n[1] /\ m[2] < n[2])

\* among them, the one that holds the earliest listed point
FirstFilled(t) ==
    CHOOSE m \in Crowded(t) :
        \E j \in PointsIn(t, m) : \A n \in Crowded(t) : \A k \in PointsIn(t, n) : j <= k

\* squared distance of the j-th point to the centre of sub-cell m
ToSubCentre(t, j, m) ==
    Dist2(t.cell_points[j],
          Frac(2 * (t.cell_x * MINI_GRID_SIZE + m[1]) + 1, 2 * LEAF * MINI_GRID_SIZE),
          Frac(2 * (t.cell_y * MINI_GRID_SIZE + m[2]) + 1, 2 * LEAF * MINI_GRID_SIZE))

\* the position in the cell's list of the point the task sorted its list around
ChosenRow(t) == CHOOSE j \in 1..Len(t.cell_points) : t.cell_points[j] = t.sorted_points[1]

\* the chosen point lies in sub-cell m and no point of m is closer to its centre
NearestOf(t, m) ==
    /\ ChosenRow(t) \in PointsIn(t, m)
    /\ \A k \in PointsIn(t, m) : ~FLess(ToSubCentre(t, k, m), ToSubCentre(t, ChosenRow(t), m))

\* the point chosen is the first of the closest points of sub-cell m
FirstNearestOf(t, m) ==
    /\ NearestOf(t, m)
    /\ \A k \in PointsIn(t, m) :
          k < ChosenRow(t) => FLess(ToSubCentre(t, ChosenRow(t), m), ToSubCentre(t, k, m))

\* task i runs its selector in this step, on more than FEW_POINTS points
DenseSelection(i) ==
    /\ pc = "tasks"
    /\ pc' = "tasks"
    /\ tasks[i].state = "created"
    /\ DenseTask(tasks'[i])

\* C17 as stated: for a cell of more than FEW_POINTS points the selector
\* returns the point closest to the centre of the sub-cell with the most
\* points, the lowest (mx, my) among equals, whatever the order of the points.
C17_DensestByRowMajor ==
    [][\A i \in 1..Len(tasks) :
          DenseSelection(i) => NearestOf(tasks'[i], RowMajorFirst(tasks'[i]))]_vars

\* C17 amended: for a cell of more than FEW_POINTS points the selector
\* returns the point closest to the centre of the sub-cell with the most
\* points, among equals the sub-cell whose first point is listed earliest,
\* and among equally close points the one listed first.
C17_DensestByFirstFilled ==
    [][\A i \in 1..Len(tasks) :
          DenseSelection(i) => FirstNearestOf(tasks'[i], FirstFilled(tasks'[i]))]_vars

\* two sub-cells hold the most points, the one filled first is not the lowest
\* (mx, my), and the point returned is not the first listed point of it
C17_Witness ==
    /\ pc = "tasks"
    /\ \E i \in 1..Len(tasks) :
          /\ DenseTask(tasks[i])
          /\ Cardinality(Crowded(tasks[i])) >= 2
          /\ FirstFilled(tasks[i]) # RowMajorFirst(tasks[i])
          /\ \E k \in PointsIn(tasks[i], FirstFilled(tasks[i])) : k < ChosenRow(tasks[i])

\* squared distance of the j-th point of the cell of t to the centre of the cell
ToCentre(t, j) ==
    Dist2(t.cell_points[j], Frac(2 * t.cell_x + 1, 2 * LEAF), Frac(2 * t.cell_y + 1, 2 * LEAF))

\* task i runs its selector in this step, on at most FEW_POINTS points
FewSelection(i) ==
    /\ pc = "tasks"
    /\ pc' = "tasks"
    /\ tasks[i].state = "created"
    /\ tasks'[i].state # "created"
    /\ Len(tasks'[i].cell_points) <= FEW_POINTS

\* the point chosen is a point of the cell, none is closer to the centre of
\* the cell and those listed before it are farther
FirstNearestToCentre(t) ==
    /\ t.sorted_points[1] \in Range(t.cell_points)
    /\ \A k \in 1..Len(t.cell_points) :
          /\ ~FLess(ToCentre(t, k), ToCentre(t, ChosenRow(t)))
          /\ k < ChosenRow(t) => FLess(ToCentre(t, ChosenRow(t)), ToCentre(t, k))

\* C18: for a cell of at most FEW_POINTS points the selector returns a point
\* of the cell at minimum squared distance to the centre of the cell, the
\* first in the cell's order among the points at that distance.
C18_FewPointsNearestToCentre ==
    [][\A i \in 1..Len(tasks) : FewSelection(i) => FirstNearestToCentre(tasks'[i])]_vars

\* a started task of FEW_POINTS points whose chosen point is listed last and
\* is strictly closest
C18_Witness ==
    /\ pc = "tasks"
    /\ \E i \in 1..Len(tasks) :
          /\ tasks[i].state # "created"
          /\ Len(tasks[i].cell_points) = FEW_POINTS
          /\ ChosenRow(tasks[i]) = FEW_POINTS
          /\ FLess(ToCentre(tasks[i], FEW_POINTS), ToCentre(tasks[i], 1))

\* a started task whose points are equally close to the centre: the first is chosen
FewPointsTie ==
    /\ pc = "tasks"
    /\ \E i \in 1..Len(tasks) :
          /\ tasks[i].state # "created"
          /\ Len(tasks[i].cell_points) = FEW_POINTS
          /\ \A k \in 1..FEW_POINTS : ToCentre(tasks[i], k) = ToCentre(tasks[i], 1)
          /\ tasks[i].cell_points[1].x # tasks[i].cell_points[FEW_POINTS].x
          /\ ChosenRow(tasks[i]) = 1

\* squared distance of the point with url u to the point with url v, both of the cell of t
Between(t, u, v) ==
    Dist2(t.cell_points[RowOfUrl(t, u)],
          t.cell_points[RowOfUrl(t, v)].x, t.cell_points[RowOfUrl(t, v)].y)

\* the record of a task: the count is the number of points of the cell; the
\* examples are points of the cell, each once; up to the cap they are all of
\* them, no example closer to the selector's point than an example before
\* it; beyond the cap they are as many as the cap
RecordAsBuilt(t) ==
    LET rec == t.result[1]
        rep == t.sorted_points[1].url
    IN  /\ rec.count = Len(t.cell_points)
        /\ \A a \in 1..Len(rec.examples) :
              /\ \E j \in 1..Len(t.cell_points) :
                    /\ t.cell_points[j].url = rec.examples[a].url
                    /\ t.cell_points[j].caption = rec.examples[a].caption
              /\ \A b \in 1..Len(rec.examples) :
                    a # b => rec.examples[a].url # rec.examples[b].url
        /\ IF rec.count <= EXAMPLES_PER_CELL
           THEN /\ Len(rec.examples) = rec.count
                /\ \A a, b \in 1..Len(rec.examples) :
                      a < b => ~FLess(Between(t, rec.examples[b].url, rep),
                                      Between(t, rec.examples[a].url, rep))
           ELSE Len(rec.examples) = EXAMPLES_PER_CELL

\* C19: a finest record counts every point of its cell; with at most
\* EXAMPLES_PER_CELL points its examples are all the points in ascending
\* squared distance to the selector's point, with more they are
\* EXAMPLES_PER_CELL distinct points of the cell.
C19_FinestRecord ==
    /\ pc = "tasks" =>
          \A i \in 1..Len(tasks) : tasks[i].result # <<>> => RecordAsBuilt(tasks[i])
    /\ Built256 =>
          \A i \in 1..Len(tasks) :
              tasks[i].result # <<>> =>
                  grid_256_data[KeyOf(grid_256_buckets[i].key)] = tasks[i].result[1]

\* a record whose first candidate failed: it counts both points, and its
\* examples start with the selector's point although the other point, the
\* one acquired, is the closest to itself
C19_Witness ==
    /\ pc = "tasks"
    /\ \E i \in 1..Len(tasks) :
          /\ tasks[i].result # <<>>
          /\ Len(tasks[i].gets) = 2
          /\ tasks[i].result[1].count = 2
          /\ tasks[i].result[1].examples[1].url = tasks[i].sorted_points[1].url
          /\ tasks[i].result[1].examples[2].url = tasks[i].result[1].url
          /\ FLess(Between(tasks[i], tasks[i].result[1].examples[2].url, tasks[i].result[1].url),
                   Between(tasks[i], tasks[i].result[1].examples[1].url, tasks[i].result[1].url))

\* a record of a cell with more points than the cap
SampledRecord ==
    /\ pc = "tasks"
    /\ \E i \in 1..Len(tasks) :
          /\ tasks[i].result # <<>>
          /\ tasks[i].result[1].count > EXAMPLES_PER_CELL
          /\ tasks[i].result[1].examples[1].url # tasks[i].sorted_points[1].url

\* the fetch of url u has succeeded in this run
FetchedOk(u) ==
    \E i \in 1..Len(tasks) :
        /\ tasks[i].result # <<>>
        /\ tasks[i].gets # <<>>
        /\ tasks[i].gets[Len(tasks[i].gets)] = u

\* the image files that were there when this run began
FilesAtStart ==
    DOMAIN images \ {tasks[i].image_filename : i \in {j \in 1..Len(tasks) :
                                                          tasks[j].result # <<>> /\ tasks[j].gets # <<>>}}

\* the cells processed one after another, in the order of the buckets, each
\* to its end before the next begins, with the fetch outcomes of this run:
\* files is the set of image files present, acc the map built so far.  A
\* cell above the cap is given the head of its sorted list as examples.
RECURSIVE OneAfterAnother(_, _, _)
OneAfterAnother(buckets, files, acc) ==
    IF buckets = <<>> THEN acc
    ELSE LET b == Head(buckets)
             t == [NewTask(b) EXCEPT !.sorted_points = SortedPoints(b.pts, b.key[1], b.key[2])]
             cands == Candidates(t.sorted_points)
             there == AlreadyThere([f \in files |-> TRUE], t.image_filename)
             oks == {k \in 1..Len(cands) : FetchedOk(cands[k].url)}
             k == IF there THEN 1 ELSE CHOOSE a \in oks : \A c \in oks : a <= c
         IN  IF ~there /\ oks = {}
             THEN OneAfterAnother(Tail(buckets), files, acc)
             ELSE OneAfterAnother(Tail(buckets), files \cup {t.image_filename},
                                  acc @@ (CellKey(b.key[1], b.key[2]) :>
                                            CellRecord(t, t.sorted_points[k],
                                                       Take(t.sorted_points, EXAMPLES_PER_CELL))))

\* the record of bucket b in map m, <<>> when it has none; the examples of a
\* cell above the cap are left out of the comparison
RecordIn(m, b) ==
    LET k == CellKey(b.key[1], b.key[2])
    IN  IF k \notin DOMAIN m THEN <<>>
        ELSE IF Len(b.pts) <= EXAMPLES_PER_CELL THEN <<m[k]>>
        ELSE <<[m[k] EXCEPT !.examples = <<>>]>>

\* C20: whatever the interleaving of the tasks, no two of them have the same
\* destination file, each image file holds an image of its own cell, every
\* result is stored under the key of its own cell, and the finest map is the
\* one obtained by processing the cells one after another with the same
\* fetch outcomes.
C20_InterleavingIsHarmless ==
    /\ \A i, j \in 1..Len(tasks) :
          i # j => tasks[i].image_filename # tasks[j].image_filename
    /\ pc = "tasks" =>
          \A i \in 1..Len(tasks) :
              tasks[i].image_filename \in DOMAIN images =>
                  \E p \in Range(tasks[i].cell_points) : p.url = images[tasks[i].image_filename]
    /\ pc = "aggregate_128" =>
          LET seq == OneAfterAnother(grid_256_buckets, FilesAtStart, EmptyMap)
          IN  /\ DOMAIN grid_256_data = DOMAIN seq
              /\ \A i \in 1..Len(grid_256_buckets) :
                    /\ RecordIn(grid_256_data, grid_256_buckets[i]) = RecordIn(seq, grid_256_buckets[i])
                    /\ tasks[i].result # <<>> =>
                          grid_256_data[CellKey(tasks[i].cell_x, tasks[i].cell_y)] = tasks[i].result[1]
                    /\ tasks[i].result = <<>> =>
                          CellKey(tasks[i].cell_x, tasks[i].cell_y) \notin DOMAIN grid_256_data

\* a later task has finished with a record while an earlier one, whose first
\* fetch failed, still waits for its second
OutOfOrder ==
    \E i, j \in 1..Len(tasks) :
        /\ i < j
        /\ tasks[i].state = "fetching"
        /\ Len(tasks[i].gets) = 2
        /\ tasks[j].state = "done"
        /\ tasks[j].result # <<>>
        /\ tasks[j].gets # <<>>

\* the map is built from three tasks: one ended on its second candidate, one
\* was acquired at once, one failed
C20_Witness ==
    /\ pc = "aggregate_128"
    /\ Len(tasks) >= 3
    /\ \E i, j, k \in 1..Len(tasks) :
          /\ i < j
          /\ tasks[i].result # <<>>
          /\ Len(tasks[i].gets) = 2
          /\ tasks[j].result # <<>>
          /\ Len(tasks[j].gets) = 1
          /\ tasks[k].result = <<>>
          /\ Len(tasks[k].gets) >= 1

\* the attempts of a task so far are the first candidates of its sorted
\* list, one attempt each and in order, at most TOP_CANDIDATES and at most
\* as many as the cell has points; a task that waits, waits for the last of
\* them; a task that gave up has tried them all
AttemptsSoFar(t) ==
    LET most == IF Len(t.cell_points) < TOP_CANDIDATES THEN Len(t.cell_points) ELSE TOP_CANDIDATES
    IN  /\ Len(t.gets) <= most
        /\ \A k \in 1..Len(t.gets) : t.gets[k] = t.sorted_points[k].url
        /\ \A k, l \in 1..Len(t.gets) : k # l => t.gets[k] # t.gets[l]
        /\ t.state = "fetching" => t.cand = Len(t.gets) /\ t.result = <<>>
        /\ (t.state = "done" /\ t.result = <<>>) => Len(t.gets) = most

\* gather has run every task to its first await or to its return
AllAwaiting ==
    /\ pc = "tasks"
    /\ \A i \in 1..Len(tasks) : tasks[i].state # "created"

\* generate_grids has its finest map: every task is over and every cell has
\* its record in the map or has none
AllCellsSettled ==
    /\ pc = "aggregate_128"
    /\ \A i \in 1..Len(tasks) :
          /\ tasks[i].state = "done"
          /\ IF tasks[i].result = <<>>
             THEN KeyOf(grid_256_buckets[i].key) \notin DOMAIN grid_256_data
             ELSE grid_256_data[KeyOf(grid_256_buckets[i].key)] = tasks[i].result[1]

\* C21: when every fetch returns or times out, a task makes at most
\* min(TOP_CANDIDATES, points of the cell) attempts, one per candidate in
\* order, a failed or timed-out attempt leading to the next candidate, and
\* once gather has started its tasks generate_grids comes to its end with
\* every cell recorded or dropped.
C21_TasksTerminate ==
    /\ [](pc = "tasks" => \A i \in 1..Len(tasks) : AttemptsSoFar(tasks[i]))
    /\ (AllAwaiting ~> AllCellsSettled)

\* the finest map is there; a cell of more points than TOP_CANDIDATES was
\* dropped after TOP_CANDIDATES attempts, another cell has its record
C21_Witness ==
    /\ AllCellsSettled
    /\ \E i, j \in 1..Len(tasks) :
          /\ tasks[i].result = <<>>
          /\ Len(tasks[i].cell_points) > TOP_CANDIDATES
          /\ Len(tasks[i].gets) = TOP_CANDIDATES
          /\ tasks[j].result # <<>>

\* the finest records are the ones the tasks returned
AsCreated ==
    \A i \in 1..Len(tasks) :
        tasks[i].result # <<>> =>
            /\ KeyOf(grid_256_buckets[i].key) \in DOMAIN grid_256_data
            /\ grid_256_data[KeyOf(grid_256_buckets[i].key)] = tasks[i].result[1]

\* a step of _aggregate_grid or of the saves
AfterGenerate == pc \in {"aggregate_128", "aggregate_64", "save"}

\* C22: records are write-once: an aggregation leaves the map it reads as
\* it was, requests nothing (no task makes an attempt) and writes no image
\* file, and neither aggregation nor the saves change a finest record after
\* generate_grids made it.
C22_RecordsAreWriteOnce ==
    /\ [](Built256 => AsCreated)
    /\ [][AfterGenerate =>
            /\ grid_256_data' = grid_256_data
            /\ (pc \in {"aggregate_64", "save"} => grid_128_data' = grid_128_data)
            /\ (pc = "save" => grid_64_data' = grid_64_data)
            /\ images' = images
            /\ tasks' = tasks]_vars

\* the step is over and the three levels are written; the finest level has
\* a record with examples, which the coarser levels drew from
C22_Witness ==
    /\ pc = "done"
    /\ AsCreated
    /\ \E k \in DOMAIN grid_256_data : grid_256_data[k].examples # <<>>
    /\ \E k \in DOMAIN grid_128_data : grid_128_data[k].examples # <<>>
    /\ \E i \in FilesOf("grid_256") :
          \E k \in DOMAIN written[i].data : written[i].data[k] = grid_256_data[k]

\* the file of task i is there and was encoded from the response to url u
EncodedFrom(i, u) ==
    /\ tasks[i].image_filename \in DOMAIN images
    /\ images[tasks[i].image_filename] = u

\* the same in a run that starts on an empty output directory
FreshRunImageIsOfRecordUrl ==
    (run = 1 /\ Built256) =>
        \A i \in 1..Len(tasks) :
            tasks[i].result # <<>> =>
                EncodedFrom(i, grid_256_data[KeyOf(grid_256_buckets[i].key)].url)

\* C23: the image file at the img path of every finest record was produced
\* by a successful fetch-and-encode of the record's own url, after any
\* sequence of runs over the same output directory.
C23_ImageIsOfRecordUrl ==
    Built256 =>
        \A i \in 1..Len(tasks) :
            tasks[i].result # <<>> =>
                EncodedFrom(i, grid_256_data[KeyOf(grid_256_buckets[i].key)].url)

\* the finest cells inside cell c of the level that is f times coarser
Below(c, f) == {d \in Cells(LEAF) : d[1] \div f = c[1] /\ d[2] \div f = c[2]}

\* the level of resolution n has a cell exactly where a finest record lies
\* inside, its count is the sum of the counts of those records, and every
\* finest record lies inside exactly one cell of the level
SumsOfSurvivors(upper, n) ==
    LET f == LEAF \div n
    IN  /\ WellKeyed(upper, n)
        /\ \A c \in Cells(n) :
              LET inside == PresentKeys(grid_256_data, Below(c, f))
              IN  IF inside = {}
                  THEN KeyOf(c) \notin DOMAIN upper
                  ELSE /\ KeyOf(c) \in DOMAIN upper
                       /\ upper[KeyOf(c)].count = SumOfCounts(grid_256_data, inside)
        /\ \A d \in Cells(LEAF) :
              KeyOf(d) \in DOMAIN grid_256_data =>
                  Cardinality({c \in Cells(n) : d \in Below(c, f) /\ KeyOf(c) \in DOMAIN upper}) = 1
        /\ SumOfCounts(upper, DOMAIN upper) = SumOfCounts(grid_256_data, DOMAIN grid_256_data)

\* C24: at levels 128 and 64 the count of a cell is the sum of the counts of
\* the finest records that survived acquisition and lie inside the cell;
\* every finest record counts in exactly one cell of each coarser level, so
\* the total of the counts is the same at the three levels.
C24_CountsOfSurvivors ==
    /\ Built128 => SumsOfSurvivors(grid_128_data, GRID_SIZES[2])
    /\ Built64 => SumsOfSurvivors(grid_64_data, GRID_SIZES[3])

\* the coarsest cell sums finest records of two different cells of the
\* middle level, and a cell that lost every candidate is left out of it
C24_Witness ==
    /\ pc = "done"
    /\ \E c \in Cells(GRID_SIZES[3]) :
          /\ KeyOf(c) \in DOMAIN grid_64_data
          /\ Cardinality(PresentKeys(grid_128_data, ChildrenOf(c))) >= 2
          /\ Cardinality(PresentKeys(grid_256_data, Below(c, LEAF \div GRID_SIZES[3]))) >= 2
          /\ grid_64_data[KeyOf(c)].count < Len(points)
          /\ grid_64_data[KeyOf(c)].count >= 3

\* record rec shows finest cell d: its img is the file of d, and its url
\* and caption are those of the finest record of d
Shows(rec, d) ==
    /\ KeyOf(d) \in DOMAIN grid_256_data
    /\ rec.img = ImagePath(ImageFilename(d[1], d[2]))
    /\ rec.url = grid_256_data[KeyOf(d)].url
    /\ rec.caption = grid_256_data[KeyOf(d)].caption

ShowsFinestInside(grid, n) ==
    /\ WellKeyed(grid, n)
    /\ \A c \in Cells(n) :
          KeyOf(c) \in DOMAIN grid =>
              \E d \in Below(c, LEAF \div n) : Shows(grid[KeyOf(c)], d)

\* C25: at every level the img of a record is the file of a finest cell that
\* has a record and lies inside the record's cell (the cell itself at level
\* 256), and the record's url and caption are those of that finest record.
C25_RecordShowsFinestInside ==
    /\ Built256 => ShowsFinestInside(grid_256_data, GRID_SIZES[1])
    /\ Built128 => ShowsFinestInside(grid_128_data, GRID_SIZES[2])
    /\ Built64 => ShowsFinestInside(grid_64_data, GRID_SIZES[3])

\* the coarsest cell shows a finest cell that is not the first of the finest
\* records inside it, and a middle cell shows a finest cell other than its
\* first child
C25_Witness ==
    /\ pc = "done"
    /\ \E c \in Cells(GRID_SIZES[3]) :
          /\ KeyOf(c) \in DOMAIN grid_64_data
          /\ \E d, e \in Below(c, LEAF \div GRID_SIZES[3]) :
                /\ d # e
                /\ Shows(grid_64_data[KeyOf(c)], d)
                /\ KeyOf(e) \in DOMAIN grid_256_data
                /\ e[1] < d[1]
    /\ \E c \in Cells(GRID_SIZES[2]) :
          /\ KeyOf(c) \in DOMAIN grid_128_data
          /\ Cardinality(PresentKeys(grid_256_data, ChildrenOf(c))) >= 2
          /\ ~Shows(grid_128_data[KeyOf(c)], <<2 * c[1], 2 * c[2]>>)

\* the shards written for a level, in the order written
Shards(base) == SelectSeq(written, LAMBDA f : f.name.base = base /\ f.name.part >= 1)

\* no shard of the level is empty
NoEmptyShard(base) == \A p \in 1..Len(Shards(base)) : Shards(base)[p].order # <<>>

\* C26: when a level is split into parts, every shard file written has at
\* least one entry: with parts = ceil(size/budget) >= 2 and chunk =
\* ceil(itemCount/parts), no slice [i*chunk, (i+1)*chunk) is empty.
C26_NoEmptyShard ==
    pc = "done" =>
        /\ NoEmptyShard("grid_64")
        /\ NoEmptyShard("grid_128")
        /\ NoEmptyShard("grid_256")

\* shard p of an oversized level has an entry exactly when its slice starts
\* before the end of the list, (p-1)*chunk < itemCount; the shards past the
\* end are written all the same, with no entry
EmptyOnlyPastEnd(base, grid) ==
    LET n == Cardinality(DOMAIN grid)
        parts == LeastMultiple(JsonSize(grid), MAX_JSON_MB)
        chunk == LeastMultiple(n, parts)
    IN  JsonSize(grid) > MAX_JSON_MB =>
            /\ Len(Shards(base)) = parts
            /\ parts >= 2
            /\ \A p \in 1..parts :
                  Shards(base)[p].order # <<>> <=> (p - 1) * chunk < n

\* C26 (amended): when a level is split, the shard of slice
\* [i*chunk, (i+1)*chunk) has at least one entry exactly when i*chunk <
\* itemCount; a slice that starts at or past the end of the list is written
\* as a shard with no entry.
C26_EmptyShardOnlyPastEnd ==
    pc = "done" =>
        /\ EmptyOnlyPastEnd("grid_64", grid_64_data)
        /\ EmptyOnlyPastEnd("grid_128", grid_128_data)
        /\ EmptyOnlyPastEnd("grid_256", grid_256_data)

\* four entries in three parts: chunk is 2, the first two shards have two
\* entries each and the third has none
C26_Witness ==
    /\ pc = "done"
    /\ Cardinality(DOMAIN grid_256_data) = 4
    /\ Len(Shards("grid_256")) = 3
    /\ Len(Shards("grid_256")[1].order) = 2
    /\ Len(Shards("grid_256")[2].order) = 2
    /\ Shards("grid_256")[3].order = <<>>

\* the levels of the files written so far, in the order written
WrittenLevels == [i \in 1..Len(written) |-> written[i].name.base]

LevelRank(base) == IF base = "grid_64" THEN 1 ELSE IF base = "grid_128" THEN 2 ELSE 3

\* the files come level after level in the order 64, 128, 256, and a level
\* has files only if the levels before it are written in full
LevelsInOrder ==
    /\ \A i, j \in 1..Len(written) :
          i < j => LevelRank(WrittenLevels[i]) <= LevelRank(WrittenLevels[j])
    /\ \A i \in 1..Len(written) :
          \A b \in {"grid_64", "grid_128"} :
              LevelRank(b) < LevelRank(WrittenLevels[i]) =>
                  SelectSeq(written, LAMBDA f : f.name.base = b) = save_json_split(LevelOf(b), b)

\* every task of the finest level is over and both aggregations are done
LevelsReady ==
    /\ pc \in {"save", "done", "failed"}
    /\ \A i \in 1..Len(tasks) : tasks[i].state = "done"
    /\ grid_256_data = GatherResults(grid_256_buckets, tasks)
    /\ grid_128_data = _aggregate_grid(grid_256_data, GRID_SIZES[2])
    /\ grid_64_data = _aggregate_grid(grid_128_data, GRID_SIZES[3])

AllLevelsWritten ==
    \A b \in {"grid_64", "grid_128", "grid_256"} :
        SelectSeq(written, LAMBDA f : f.name.base = b) = save_json_split(LevelOf(b), b)

\* C27: no level file is written before every finest task is over and both
\* aggregations are done; the levels are written in the order 64, 128, 256;
\* a step that raises ends the process with status 1, and the levels not yet
\* written then stay unwritten.
C27_SavesLastAndInOrder ==
    /\ [](written # <<>> => LevelsReady)
    /\ [](LevelsInOrder)
    /\ [](pc = "done" => exit_status = "0" /\ AllLevelsWritten)
    /\ [](pc = "failed" => exit_status = "1" /\ ~AllLevelsWritten)
    /\ [](exit_status = "0" => pc = "done")
    /\ [][written' # written => pc = "save" /\ exit_status = "running"]_vars

\* the save of the finest level raised: the two coarser levels are written,
\* no file of the finest level is, and the exit status is 1
C27_Witness ==
    /\ pc = "failed"
    /\ exit_status = "1"
    /\ grid_256_data # EmptyMap
    /\ \E i \in 1..Len(written) : WrittenLevels[i] = "grid_64"
    /\ \E i \in 1..Len(written) : WrittenLevels[i] = "grid_128"
    /\ \A i \in 1..Len(written) : WrittenLevels[i] # "grid_256"

\* a split level whose save raised after its first shard
RaisedBetweenShards ==
    /\ pc = "failed"
    /\ written # <<>>
    /\ written[Len(written)].name.part >= 1
    /\ ~AllLevelsWritten

====
